---- MODULE Spec2Model ----
(***************************************************************************)
(* State-machine model of the radar-lend programs:                         *)
(*   - the multi-loan ledger   (programs/sol-savings/src/lib.rs)           *)
(*   - the single-loan program (src/main_usdc_sol_collateral.rs)           *)
(* Stored fields are kept as integers.  Every intermediate u64 value is an *)
(* exact natural number, written as its little-endian base-256 digits, so  *)
(* that products beyond 2^31 (and beyond 2^64) are computed exactly and    *)
(* the overflow checks of the code compare against the real 2^64.          *)
(***************************************************************************)
EXTENDS Integers, Sequences, FiniteSets, TLC

(***************************************************************************)
(* Exact naturals: <<d1, d2, ...>> stands for d1 + 256*d2 + 256^2*d3 ...   *)
(* with no trailing zero digit; <<>> is 0.  A u64 has at most 8 digits.    *)
(***************************************************************************)
Big(n) ==
    IF n < 256 THEN (IF n = 0 THEN <<>> ELSE <<n>>)
    ELSE IF n < 65536 THEN <<n % 256, n \div 256>>
    ELSE IF n < 16777216 THEN <<n % 256, (n \div 256) % 256, n \div 65536>>
    ELSE <<n % 256, (n \div 256) % 256, (n \div 65536) % 256, n \div 16777216>>

Digit(s, i) == IF i <= Len(s) THEN s[i] ELSE 0

RECURSIVE Trim(_)
Trim(s) == IF s = <<>> \/ s[Len(s)] # 0 THEN s ELSE Trim(SubSeq(s, 1, Len(s) - 1))

\* The integer a digit sequence stands for; used only on values below 2^31.
RECURSIVE ToInt(_)
ToInt(s) == IF s = <<>> THEN 0 ELSE s[1] + 256 * ToInt(Tail(s))

FitsInt(s) == Len(s) < 4 \/ (Len(s) = 4 /\ s[4] < 128)

RECURSIVE AddFrom(_, _, _, _)
AddFrom(a, b, i, c) ==
    IF i > Len(a) /\ i > Len(b)
    THEN (IF c = 0 THEN <<>> ELSE <<c>>)
    ELSE LET t == Digit(a, i) + Digit(b, i) + c
         IN  <<t % 256>> \o AddFrom(a, b, i + 1, t \div 256)

BigAdd(a, b) == AddFrom(a, b, 1, 0)

RECURSIVE SubFrom(_, _, _, _)
SubFrom(a, b, i, br) ==
    IF i > Len(a)
    THEN <<>>
    ELSE LET t == Digit(a, i) - Digit(b, i) - br
         IN  <<t % 256>> \o SubFrom(a, b, i + 1, IF t < 0 THEN 1 ELSE 0)

RECURSIVE LtFrom(_, _, _)
LtFrom(a, b, i) ==
    IF i = 0 THEN FALSE
    ELSE IF a[i] # b[i] THEN a[i] < b[i]
    ELSE LtFrom(a, b, i - 1)

BigLt(a, b) == IF Len(a) # Len(b) THEN Len(a) < Len(b) ELSE LtFrom(a, b, Len(a))

BigLe(a, b) == ~BigLt(b, a)

\* a - b for a >= b
BigSub(a, b) == Trim(SubFrom(a, b, 1, 0))

\* a * k from digit i on with the carry c, for a number k below 2^22 (so that
\* a[i] * k + c stays below 2^31).
RECURSIVE MulDigitFrom(_, _, _, _)
MulDigitFrom(a, k, i, c) ==
    IF i > Len(a)
    THEN Big(c)
    ELSE LET t == a[i] * k + c
         IN  <<t % 256>> \o MulDigitFrom(a, k, i + 1, t \div 256)

RECURSIVE MulFrom(_, _, _)
MulFrom(a, b, j) ==
    IF j > Len(b)
    THEN <<>>
    ELSE BigAdd(MulDigitFrom(a, b[j], 1, 0), <<0>> \o MulFrom(a, b, j + 1))

BigMul(a, b) ==
    LET x == ToInt(a)
        y == ToInt(b)
    IN  IF FitsInt(a) /\ FitsInt(b) /\ (x = 0 \/ y <= 2147483647 \div x)
        THEN Big(x * y)
        ELSE IF FitsInt(b) /\ y < 4194304 THEN Trim(MulDigitFrom(a, y, 1, 0))
        ELSE IF FitsInt(a) /\ x < 4194304 THEN Trim(MulDigitFrom(b, x, 1, 0))
        ELSE Trim(MulFrom(a, b, 1))

\* The largest k in lo..hi with k * d <= r (one digit of a quotient).
RECURSIVE QuotDigit(_, _, _, _)
QuotDigit(r, d, lo, hi) ==
    IF lo = hi
    THEN lo
    ELSE LET mid == (lo + hi + 1) \div 2
         IN  IF BigLe(Trim(MulDigitFrom(d, mid, 1, 0)), r)
             THEN QuotDigit(r, d, mid, hi)
             ELSE QuotDigit(r, d, lo, mid - 1)

\* Long division, digit i of a down to digit 1, with the running remainder r
\* and the quotient digits q found so far (k and q are evaluated before the
\* next digit is taken).
RECURSIVE DivFrom(_, _, _, _, _)
DivFrom(a, d, i, r, q) ==
    IF i = 0
    THEN Trim(q)
    ELSE LET r2 == Trim(<<a[i]>> \o r)
             k  == IF FitsInt(r2) /\ FitsInt(d)
                   THEN ToInt(r2) \div ToInt(d)
                   ELSE QuotDigit(r2, d, 0, 255)
         IN  IF k >= 0 /\ Len(q) >= 0
             THEN DivFrom(a, d, i - 1, BigSub(r2, Trim(MulDigitFrom(d, k, 1, 0))), <<k>> \o q)
             ELSE <<>>

\* Long division by a number d below 2^27, half a digit at a time: r is the
\* running remainder (below d, so r * 16 + 15 is below 2^31).
RECURSIVE DivSmallFrom(_, _, _, _, _)
DivSmallFrom(a, d, i, r, q) ==
    IF i = 0
    THEN Trim(q)
    ELSE LET t1 == r * 16 + (a[i] \div 16)
             t2 == (t1 % d) * 16 + (a[i] % 16)
             k  == (t1 \div d) * 16 + (t2 \div d)
         IN  IF k >= 0 /\ Len(q) >= 0
             THEN DivSmallFrom(a, d, i - 1, t2 % d, <<k>> \o q)
             ELSE <<>>

\* floor(a / d) for d # 0
BigDiv(a, d) ==
    LET y == ToInt(d)
    IN  IF BigLt(a, d) THEN <<>>
        ELSE IF FitsInt(a) /\ FitsInt(d) THEN Big(ToInt(a) \div y)
        ELSE IF FitsInt(d) /\ y < 134217728 THEN DivSmallFrom(a, y, Len(a), 0, <<>>)
        ELSE DivFrom(a, d, Len(a), <<>>, <<>>)

(***************************************************************************)
(* Rust integer operations on u64 values (digit sequences of length <= 8). *)
(***************************************************************************)
\* Option::None of a checked operation.
None == <<-1>>
\* An arithmetic-overflow panic of an unchecked operation.
Panic == <<-2>>

TwoPow64 == <<0, 0, 0, 0, 0, 0, 0, 0, 1>>

IsU64(a) == Len(a) <= 8

\* The low 64 bits of a natural number.
Wrap64(a) == IF IsU64(a) THEN a ELSE Trim(SubSeq(a, 1, 8))

\* `i as u64` for a signed i: two's complement for a negative value.
as_u64(i) == IF i >= 0 THEN Big(i) ELSE BigSub(TwoPow64, Big(-i))

checked_add(a, b) ==
    IF a = None \/ b = None THEN None
    ELSE LET s == BigAdd(a, b) IN IF IsU64(s) THEN s ELSE None

checked_sub(a, b) ==
    IF a = None \/ b = None THEN None
    ELSE IF BigLt(a, b) THEN None ELSE BigSub(a, b)

checked_mul(a, b) ==
    IF a = None \/ b = None THEN None
    ELSE LET m == BigMul(a, b) IN IF IsU64(m) THEN m ELSE None

checked_div(a, b) ==
    IF a = None \/ b = None THEN None
    ELSE IF b = <<>> THEN None ELSE BigDiv(a, b)

VARIABLES
    (* the clock sysvar and the outcome of the last instruction *)
    unix_timestamp, result,
    (* single-loan program (src/main_usdc_sol_collateral.rs) *)
    loan_account, sl_lamports, sl_tokens, overflow_checks, rent_lamports_per_byte_year,
    (* the number of loans the single-loan program has opened so far *)
    sl_opened,
    (* multi-loan ledger (programs/sol-savings/src/lib.rs): the UserAccount, the
       lamports of the owner and of the user account (above its rent reserve;
       its digits once an unchecked subtraction has wrapped it beyond the
       integers), and the token amounts of the user's and the contract's USDC
       accounts *)
    user_account, lg_lamports, lg_tokens,
    (* a second user account of the ledger: its data, its lamports above its
       rent reserve and the token amount of the USDC account its owner passes
       with it *)
    peer,
    (* the sizing of a collateral (lib.rs, lines 105 to 120) applied on its own:
       the arguments of the last application and its value *)
    sizer,
    (* deposit and withdraw vaults: which of the programs is deployed, which
       program owns the wallet, the data of the user account, the lamports of
       the wallets and of the user account, and the sums of the amounts of the
       deposits and of the withdrawals that succeeded *)
    vault_variant, wallet_owner, vault_account, vt_lamports, vt_history,
    (* the interest of repay_loan (lib.rs, lines 192 to 197) applied on its own:
       the arguments of the last application and its value *)
    accrual

sl_vars == <<loan_account, sl_lamports, sl_tokens, overflow_checks, rent_lamports_per_byte_year,
             sl_opened>>
lg_vars == <<user_account, lg_lamports, lg_tokens, peer>>
vt_vars == <<vault_variant, wallet_owner, vault_account, vt_lamports, vt_history>>
ext_vars == <<sizer, accrual, vt_vars>>
vars == <<unix_timestamp, result, sl_vars, lg_vars, ext_vars>>

\* Nothing sized yet.
NoSizing == [usdc_amount |-> 0, ltv |-> 0, price |-> 0, value |-> <<-1>>]

\* No interest computed yet.
NoAccrual == [principal |-> 0, apy |-> 0, elapsed |-> 0, value |-> <<-1>>]

\* No vault account created yet.
NoVaultAccount == [created |-> FALSE, owner |-> "", balance |-> 0]
NoVaultHistory == [deposited |-> 0, withdrawn |-> 0]

\* The sizing and the vaults with nothing done.
ExtIdle ==
    /\ sizer = NoSizing
    /\ accrual = NoAccrual
    /\ vault_variant = "main_deposit"
    /\ wallet_owner = [w \in {"user", "other"} |-> "system"]
    /\ vault_account = NoVaultAccount
    /\ vt_lamports = [a \in {"user", "other", "user_account"} |-> 0]
    /\ vt_history = NoVaultHistory

(***************************************************************************)
(* The single-loan program.                                                *)
(***************************************************************************)
SOL_PRICE == 150
LTV == 25

\* The `*` of the program: it panics when the build has overflow checks and
\* wraps modulo 2^64 when it has none.
unchecked_mul(a, b) ==
    IF a = Panic \/ b = Panic THEN Panic
    ELSE LET m == BigMul(a, b)
         IN  IF IsU64(m) THEN m ELSE IF overflow_checks THEN Panic ELSE Wrap64(m)

\* The `/` of the program by a non-zero constant.
unchecked_div(a, b) == IF a = Panic THEN Panic ELSE BigDiv(a, b)

\* 365 * 24 * 60 * 60 * 100
YearTimes100 == BigMul(BigMul(BigMul(BigMul(Big(365), Big(24)), Big(60)), Big(60)), Big(100))

Borrower == "borrower"
Liquidator == "liquidator"
Signers == {Borrower, Liquidator}

\* The loan account with no data (not created yet, or closed).
NoLoanData == [has_data |-> FALSE, borrower |-> "", start_date |-> 0, principal |-> 0,
               apy |-> 0, collateral |-> 0]

LoanData(b, t, p, a, c) == [has_data |-> TRUE, borrower |-> b, start_date |-> t,
                            principal |-> p, apy |-> a, collateral |-> c]

\* interest and total_due as repay_loan and liquidate_loan compute them
sl_interest(loan_data, now) ==
    LET time_elapsed == as_u64(now - loan_data.start_date)
    IN  unchecked_div(
            unchecked_mul(unchecked_mul(Big(loan_data.principal), Big(loan_data.apy)),
                          time_elapsed),
            YearTimes100)

sl_total_due(loan_data, now) ==
    LET interest == sl_interest(loan_data, now)
    IN  IF interest = Panic THEN Panic ELSE checked_add(Big(loan_data.principal), interest)

sl_collateral_value(loan_data) ==
    unchecked_div(unchecked_mul(Big(loan_data.collateral), Big(SOL_PRICE)), Big(100))

\* `current_collateral_value >= total_due`
NotUnderwater(current_collateral_value, total_due) ==
    BigLe(total_due, current_collateral_value)

Fail(e) == [err |-> e]

\* An instruction returns e, having written `accounts` so far.
Return(e, accounts) == [err |-> e, accounts |-> accounts]

\* A cluster that keeps whatever an instruction wrote, whether it returned
\* Ok or an error.
Committed_KeepWritten(r, before) == r.accounts

\* What the cluster keeps of an instruction that ran on the accounts `before`
\* and returned r: the accounts as the instruction wrote them when it returned
\* Ok, the accounts as they were when it returned an error.  The instruction
\* is the only one of its transaction, and a transaction that fails is
\* discarded whole.  This is the rule of the runtime that executes the
\* programs; no file of the repository implements it.
Committed(r, before) == IF r.err = "Ok" THEN r.accounts ELSE before

liquidate_loan(liquidator) ==
    LET before == [loan |-> loan_account, lamports |-> sl_lamports, tokens |-> sl_tokens]
        loan_data == loan_account
        total_due == sl_total_due(loan_data, unix_timestamp)
        current_collateral_value == sl_collateral_value(loan_data)
        \* the accounts after the transfer of total_due to the program
        paid == [before EXCEPT !.tokens[liquidator] = BigSub(@, total_due),
                               !.tokens["program"] = BigAdd(@, total_due)]
        \* and after the collateral has moved to the liquidator
        moved == [paid EXCEPT !.lamports["loan_account"] = @ - loan_data.collateral,
                              !.lamports[liquidator] = @ + loan_data.collateral]
    IN  IF ~loan_account.has_data THEN Return("BorshIoError", before)
        ELSE IF total_due = Panic THEN Return("Panic", before)
        ELSE IF total_due = None THEN Return("Overflow", before)
        ELSE IF current_collateral_value = Panic THEN Return("Panic", before)
        ELSE IF NotUnderwater(current_collateral_value, total_due)
             THEN Return("LoanNotUnderwater", before)
        ELSE IF BigLt(sl_tokens[liquidator], total_due)
             THEN Return("TokenTransferFailed", before)
        ELSE IF sl_lamports["loan_account"] < loan_data.collateral
             THEN Return("InsufficientFunds", paid)
        \* loan_account.assign(system_program::id()); loan_account.realloc(0, false)
        ELSE Return("Ok", [moved EXCEPT !.loan = NoLoanData])

LiquidateLoan(liquidator) ==
    LET r == liquidate_loan(liquidator)
        kept == Committed(r, [loan |-> loan_account, lamports |-> sl_lamports,
                              tokens |-> sl_tokens])
    IN  /\ result' = [op |-> "liquidate_loan", err |-> r.err]
        /\ loan_account' = kept.loan
        /\ sl_lamports' = kept.lamports
        /\ sl_tokens' = kept.tokens
        /\ UNCHANGED <<unix_timestamp, ext_vars, overflow_checks, rent_lamports_per_byte_year, sl_opened, lg_vars>>

\* rent.minimum_balance(data_len) and rent.is_exempt(lamports, data_len), with
\* the exemption threshold of two years and 128 bytes of storage overhead
minimum_balance(data_len) == (128 + data_len) * rent_lamports_per_byte_year * 2

is_exempt(lamports, data_len) == lamports >= minimum_balance(data_len)

\* std::mem::size_of::<LoanAccount>(): a 32-byte key and four 8-byte integers
LoanAccountSpace == 32 + 8 + 8 + 8 + 8

\* `(amount * 100) / SOL_PRICE`: the sizing without the loan-to-value ratio
required_collateral_lamports_NoLtv(amount) ==
    unchecked_div(unchecked_mul(Big(amount), Big(100)), Big(SOL_PRICE))

\* `(amount * 100) / (SOL_PRICE * LTV)`
required_collateral_lamports(amount) ==
    unchecked_div(unchecked_mul(Big(amount), Big(100)),
                  unchecked_mul(Big(SOL_PRICE), Big(LTV)))

initialize_loan(borrower, amount, apy) ==
    LET before == [loan |-> loan_account, lamports |-> sl_lamports, tokens |-> sl_tokens]
        sl_required_collateral == required_collateral_lamports(amount)
        data_len == IF loan_account.has_data THEN LoanAccountSpace ELSE 0
        rent_lamports == minimum_balance(LoanAccountSpace)
        \* the accounts after system_instruction::create_account: the loan
        \* account holds its rent and LoanAccountSpace bytes of zeros
        created == [before EXCEPT !.lamports[borrower] = @ - rent_lamports,
                                  !.lamports["loan_account"] = @ + rent_lamports,
                                  !.loan = LoanData("", 0, 0, 0, 0)]
        \* after system_instruction::transfer of the collateral
        funded == [created EXCEPT
                     !.lamports[borrower] = @ - ToInt(sl_required_collateral),
                     !.lamports["loan_account"] = @ + ToInt(sl_required_collateral)]
        \* after the transfer of the tokens to the borrower
        lent == [funded EXCEPT !.tokens["program"] = BigSub(@, Big(amount)),
                               !.tokens[borrower] = BigAdd(@, Big(amount))]
    IN  IF amount = 0 THEN Return("InvalidLoanAmount", before)
        ELSE IF sl_required_collateral = Panic THEN Return("Panic", before)
        \* the loan account is the address derived from Borrower's key
        ELSE IF borrower # Borrower THEN Return("InvalidAccountData", before)
        ELSE IF ~is_exempt(sl_lamports["loan_account"], data_len)
             THEN Return("NotRentExempt", before)
        \* system_instruction::create_account
        ELSE IF sl_lamports["loan_account"] > 0 \/ loan_account.has_data
             THEN Return("AccountAlreadyInUse", before)
        ELSE IF sl_lamports[borrower] < rent_lamports
             THEN Return("SystemTransferFailed", before)
        \* system_instruction::transfer of the collateral
        ELSE IF ~FitsInt(sl_required_collateral)
                \/ sl_lamports[borrower] - rent_lamports < ToInt(sl_required_collateral)
             THEN Return("SystemTransferFailed", created)
        ELSE IF BigLt(sl_tokens["program"], Big(amount))
             THEN Return("TokenTransferFailed", funded)
        ELSE Return("Ok", [lent EXCEPT
                             !.loan = LoanData(borrower, unix_timestamp, amount, apy,
                                               ToInt(sl_required_collateral))])

InitializeLoan(borrower, amount, apy) ==
    LET r == initialize_loan(borrower, amount, apy)
        kept == Committed(r, [loan |-> loan_account, lamports |-> sl_lamports,
                              tokens |-> sl_tokens])
    IN  /\ result' = [op |-> "initialize_loan", err |-> r.err]
        /\ loan_account' = kept.loan
        /\ sl_lamports' = kept.lamports
        /\ sl_tokens' = kept.tokens
        /\ sl_opened' = IF r.err = "Ok" THEN sl_opened + 1 ELSE sl_opened
        /\ UNCHANGED <<unix_timestamp, ext_vars, overflow_checks, rent_lamports_per_byte_year, lg_vars>>

\* single-loan repay_loan
sl_repay_loan(borrower, amount) ==
    LET before == [loan |-> loan_account, lamports |-> sl_lamports, tokens |-> sl_tokens]
        loan_data == loan_account
        total_due == sl_total_due(loan_data, unix_timestamp)
        \* the accounts after the transfer of amount to the program
        paid == [before EXCEPT !.tokens[borrower] = BigSub(@, amount),
                               !.tokens["program"] = BigAdd(@, amount)]
        \* and after the collateral has moved back to the borrower
        moved == [paid EXCEPT !.lamports["loan_account"] = @ - loan_data.collateral,
                              !.lamports[borrower] = @ + loan_data.collateral]
    IN  IF ~loan_account.has_data THEN Return("BorshIoError", before)
        ELSE IF loan_account.borrower # borrower THEN Return("InvalidAccountData", before)
        ELSE IF total_due = Panic THEN Return("Panic", before)
        ELSE IF total_due = None THEN Return("Overflow", before)
        ELSE IF BigLt(amount, total_due) THEN Return("InsufficientRepaymentAmount", before)
        ELSE IF BigLt(sl_tokens[borrower], amount) THEN Return("TokenTransferFailed", before)
        ELSE IF sl_lamports["loan_account"] < loan_data.collateral
             THEN Return("InsufficientFunds", paid)
        \* loan_account.assign(system_program::id()); loan_account.realloc(0, false)
        ELSE Return("Ok", [moved EXCEPT !.loan = NoLoanData])

\* A repayment that returns the collateral and leaves the data of the loan
\* in the account.
SlRepayLoan_LeftOpen(borrower, amount) ==
    LET r == sl_repay_loan(borrower, amount)
        kept == Committed(r, [loan |-> loan_account, lamports |-> sl_lamports,
                              tokens |-> sl_tokens])
    IN  /\ result' = [op |-> "repay_loan", err |-> r.err]
        /\ loan_account' = loan_account
        /\ sl_lamports' = kept.lamports
        /\ sl_tokens' = kept.tokens
        /\ UNCHANGED <<unix_timestamp, ext_vars, overflow_checks, rent_lamports_per_byte_year, sl_opened, lg_vars>>

SlRepayLoan(borrower, amount) ==
    LET r == sl_repay_loan(borrower, amount)
        kept == Committed(r, [loan |-> loan_account, lamports |-> sl_lamports,
                              tokens |-> sl_tokens])
    IN  /\ result' = [op |-> "repay_loan", err |-> r.err]
        /\ loan_account' = kept.loan
        /\ sl_lamports' = kept.lamports
        /\ sl_tokens' = kept.tokens
        /\ UNCHANGED <<unix_timestamp, ext_vars, overflow_checks, rent_lamports_per_byte_year, sl_opened, lg_vars>>

\* The clock sysvar moves forward between instructions.
SlClocks == {1625097599, 1625097600, 1625097700, 1625184000, 1625270400, 2025097600}

SlAdvanceClock(t) ==
    /\ t > unix_timestamp
    /\ unix_timestamp' = t
    /\ UNCHANGED <<result, ext_vars, sl_vars, lg_vars>>

\* The loan record the unit tests of the program start from.
TestLoan == LoanData(Borrower, 1625097600, 100000000, 500, 100000000)

OneMillionUsdc == BigMul(Big(1000000), Big(1000000))

NoResult == [op |-> "none", err |-> "Ok"]

\* The model opens at most this many loans with initialize_loan.
MaxOpened == 1

SlAmounts == {0, 100000000}
SlApys == {500, 2000000000}

\* The amounts a repayment is tried with: nothing, the amounts of the tests,
\* and the exact total due where it is a number.
SlRepayAmounts ==
    LET d == IF loan_account.has_data THEN sl_total_due(loan_account, unix_timestamp) ELSE None
    IN  {Big(50000000), Big(105000000)} \cup (IF d \in {None, Panic} THEN {} ELSE {d})

\* The supply create_usdc_mint mints to the contract's USDC account.
INITIAL_USDC_SUPPLY == BigMul(Big(1000000), Big(1000000))

NoUserAccount == [initialized |-> FALSE, owner |-> "", sol_balance |-> 0, usdc_balance |-> 0,
                  loan_count |-> 0, loans |-> <<>>]

\* The lamports the owner starts with: 10000 beside the rent of the user
\* account, of the mint and of the contract's USDC account at one lamport per
\* byte-year.  The USDC the user holds beside any loan.
OwnerLamports == 13390
UserUsdc == 1000

\* The second user account before `initialize` has run on it.
NoPeer == [ua |-> NoUserAccount, lamports |-> 0, tokens |-> Big(UserUsdc)]

\* The ledger as neither `initialize` nor `create_usdc_mint` has run: no user
\* account, and no USDC account of the contract (None).  lg_lamports holds
\* the lamports of the user account above its rent.
LedgerIdle ==
    /\ user_account = NoUserAccount
    /\ peer = NoPeer
    /\ lg_lamports = [a \in {"owner", "other", "user_account"} |->
                          IF a = "owner" THEN OwnerLamports ELSE 0]
    /\ lg_tokens = [a \in {"user", "contract"} |->
                        IF a = "user" THEN Big(UserUsdc) ELSE None]

InitLoan ==
    /\ LedgerIdle
    /\ ExtIdle
    /\ unix_timestamp \in {1625097599, 1625097600}
    /\ result = NoResult
    /\ overflow_checks \in BOOLEAN
    /\ rent_lamports_per_byte_year \in {0, 1}
    /\ loan_account \in {NoLoanData, TestLoan}
    /\ sl_opened = 0
    /\ sl_lamports = [a \in {Borrower, Liquidator, "loan_account"} |->
                        IF a = "loan_account"
                        THEN (IF loan_account.has_data THEN 100000000 ELSE 0)
                        ELSE IF a = Borrower /\ loan_account.has_data THEN 900000000
                        ELSE 1000000000]
    /\ \E liq \in {Big(1000000000), OneMillionUsdc} :
          sl_tokens = [a \in {Borrower, Liquidator, "program"} |->
                        IF a = Borrower THEN Big(1100000000)
                        ELSE IF a = Liquidator THEN liq
                        ELSE OneMillionUsdc]

NextLoan ==
    \/ \E b \in Signers, amount \in SlAmounts, apy \in SlApys :
          sl_opened < MaxOpened /\ InitializeLoan(b, amount, apy)
    \/ \E b \in Signers : \E amount \in SlRepayAmounts : SlRepayLoan(b, amount)
    \/ \E l \in Signers : LiquidateLoan(l)
    \/ \E t \in SlClocks : SlAdvanceClock(t)

SpecLoan == InitLoan /\ [][NextLoan]_vars
(***************************************************************************)
(* The multi-loan ledger.                                                  *)
(***************************************************************************)
SECONDS_IN_A_YEAR == 31536000
MAX_LOANS_PER_USER == 5

\* A loan numbered by its place in the list instead of by loan_count.
Loan_IdFromLength(id, t, p, apy, c, ltv, b) ==
    [id |-> Len(user_account.loans) + 1, start_date |-> t, principal |-> p, apy |-> apy,
     collateral |-> c, ltv |-> ltv, borrower |-> b]

\* A loan recorded with its principal and its collateral in each other's place.
Loan_FieldsSwapped(id, t, p, apy, c, ltv, b) ==
    [id |-> id, start_date |-> t, principal |-> c, apy |-> apy, collateral |-> p,
     ltv |-> ltv, borrower |-> b]

Loan(id, t, p, apy, c, ltv, b) ==
    [id |-> id, start_date |-> t, principal |-> p, apy |-> apy, collateral |-> c,
     ltv |-> ltv, borrower |-> b]

\* A validation of the accounts without `has_one = owner`.
AccountsError_NoHasOne(ua, owner) ==
    IF ~ua.initialized THEN "AccountNotInitialized" ELSE "Ok"

\* Anchor's validation of the accounts, before the handler runs: the user
\* account is initialized and `has_one = owner` names the signer.
AccountsError(ua, owner) ==
    IF ~ua.initialized THEN "AccountNotInitialized"
    ELSE IF ua.owner # owner THEN "ConstraintHasOne"
    ELSE "Ok"

\* The accounts an instruction is given when its `user_account` is the first
\* or the second user account of the ledger: the data of that account, the
\* lamports of the signers and of that account, and the token amounts of the
\* USDC account passed with it and of the contract's.
Given(acct) ==
    IF acct = "user_account"
    THEN [ua |-> user_account, lamports |-> lg_lamports, tokens |-> lg_tokens]
    ELSE [ua |-> peer.ua,
          lamports |-> [lg_lamports EXCEPT !["user_account"] = peer.lamports],
          tokens |-> [lg_tokens EXCEPT !["user"] = peer.tokens]]

\* The accounts `kept` of an instruction are those the ledger holds next; the
\* user account the instruction was not given is none of them.
Keep(acct, kept) ==
    IF acct = "user_account"
    THEN /\ user_account' = kept.ua
         /\ lg_lamports' = kept.lamports
         /\ lg_tokens' = kept.tokens
         /\ UNCHANGED peer
    ELSE /\ peer' = [ua |-> kept.ua, lamports |-> kept.lamports["user_account"],
                     tokens |-> kept.tokens["user"]]
         /\ lg_lamports' = [kept.lamports EXCEPT
                               !["user_account"] = lg_lamports["user_account"]]
         /\ lg_tokens' = [kept.tokens EXCEPT !["user"] = lg_tokens["user"]]
         /\ UNCHANGED user_account

\* The check of the number of loans admitting one loan more than the maximum.
HasRoomForLoan_OffByOne(ua) == Len(ua.loans) <= MAX_LOANS_PER_USER

\* The check of the number of loans left out.
HasRoomForLoan_Unchecked(ua) == TRUE

\* `loans.len() < MAX_LOANS_PER_USER`
HasRoomForLoan(ua) == Len(ua.loans) < MAX_LOANS_PER_USER

\* A match on ltv whose default arm lends at the highest rate.
LtvMatch_DefaultArm(ltv) ==
    CASE ltv = 20 -> <<20, 0>>
      [] ltv = 25 -> <<25, 1>>
      [] ltv = 33 -> <<33, 5>>
      [] OTHER -> <<ltv, 8>>

\* The match on ltv: <<ltv_ratio, apy>>, or <<>> for a value outside the table.
LtvMatch(ltv) ==
    CASE ltv = 20 -> <<20, 0>>
      [] ltv = 25 -> <<25, 1>>
      [] ltv = 33 -> <<33, 5>>
      [] ltv = 50 -> <<50, 8>>
      [] OTHER -> <<>>

\* A required collateral that divides by the price before scaling by 10000.
required_collateral_PriceFirst(usdc_amount, ltv_ratio, sol_price) ==
    checked_mul(checked_div(checked_div(checked_mul(usdc_amount, Big(100)), ltv_ratio),
                            sol_price),
                Big(10000))

\* A required collateral that multiplies by the price and divides by 10000.
required_collateral_TimesPrice(usdc_amount, ltv_ratio, sol_price) ==
    checked_div(checked_mul(checked_div(checked_mul(usdc_amount, Big(100)), ltv_ratio),
                            sol_price),
                Big(10000))

\* A required collateral that leaves out the scaling of the ratio by 100.
required_collateral_NoPercent(usdc_amount, ltv_ratio, sol_price) ==
    checked_div(checked_mul(checked_div(usdc_amount, ltv_ratio), Big(10000)), sol_price)

\* usdc_amount * 100 / ltv_ratio * 10000 / sol_price, every step checked
required_collateral(usdc_amount, ltv_ratio, sol_price) ==
    checked_div(checked_mul(checked_div(checked_mul(usdc_amount, Big(100)), ltv_ratio),
                            Big(10000)),
                sol_price)

deposit_sol_and_take_loan(before, owner, sol_amount, usdc_amount, ltv, answer) ==
    LET ua == before.ua
        sol_balance1 == checked_add(Big(ua.sol_balance), Big(sol_amount))
        sol_price == as_u64(answer)
        m == LtvMatch(ltv)
        collateral == required_collateral(Big(usdc_amount), Big(m[1]), sol_price)
        loan_count1 == checked_add(Big(ua.loan_count), Big(1))
        sol_balance2 == checked_sub(sol_balance1, collateral)
        usdc_balance1 == checked_add(Big(ua.usdc_balance), Big(usdc_amount))
        \* the accounts after the transfer of sol_amount to the user account
        transferred == [before EXCEPT !.lamports[owner] = @ - sol_amount,
                                      !.lamports["user_account"] = @ + sol_amount]
        \* after `before.ua.sol_balance = ...checked_add(sol_amount)`
        credited == [transferred EXCEPT !.ua.sol_balance = ToInt(sol_balance1)]
        \* after token::transfer of usdc_amount to the user
        lent == [credited EXCEPT !.tokens["contract"] = BigSub(@, Big(usdc_amount)),
                                 !.tokens["user"] = BigAdd(@, Big(usdc_amount))]
        \* after `user_account.loan_count = ...checked_add(1)`
        counted == [lent EXCEPT !.ua.loan_count = ToInt(loan_count1)]
        \* after `user_account.loans.push(loan)`
        pushed == [counted EXCEPT
                     !.ua.loans = Append(@, Loan(ToInt(loan_count1), unix_timestamp,
                                                 usdc_amount, m[2], ToInt(collateral), ltv,
                                                 owner))]
        \* after `before.ua.sol_balance = ...checked_sub(required_collateral)`
        locked == [pushed EXCEPT !.ua.sol_balance = ToInt(sol_balance2)]
    \* `contract_usdc_account: Account<TokenAccount>` does not exist yet
    IN  IF before.tokens["contract"] = None THEN Return("AccountNotInitialized", before)
        ELSE IF AccountsError(before.ua, owner) # "Ok"
             THEN Return(AccountsError(before.ua, owner), before)
        ELSE IF ~HasRoomForLoan(ua) THEN Return("MaxLoansReached", before)
        ELSE IF before.lamports[owner] < sol_amount THEN Return("SystemTransferFailed", before)
        ELSE IF sol_balance1 = None THEN Return("ArithmeticOverflow", transferred)
        ELSE IF m = <<>> THEN Return("InvalidLTV", credited)
        ELSE IF collateral = None THEN Return("ArithmeticOverflow", credited)
        ELSE IF BigLt(sol_balance1, collateral) THEN Return("InsufficientCollateral", credited)
        ELSE IF BigLt(before.tokens["contract"], Big(usdc_amount))
             THEN Return("TokenTransferFailed", credited)
        ELSE IF loan_count1 = None THEN Return("ArithmeticOverflow", lent)
        ELSE IF sol_balance2 = None THEN Return("ArithmeticOverflow", pushed)
        ELSE IF usdc_balance1 = None THEN Return("ArithmeticOverflow", locked)
        ELSE Return("Ok", [locked EXCEPT !.ua.usdc_balance = ToInt(usdc_balance1)])

\* deposit_sol_and_take_loan given the user account acct.
DepositSolAndTakeLoanOn(acct, owner, sol_amount, usdc_amount, ltv, answer) ==
    LET before == Given(acct)
        r == deposit_sol_and_take_loan(before, owner, sol_amount, usdc_amount, ltv,
                                       answer)
    IN  /\ result' = [op |-> "deposit_sol_and_take_loan", err |-> r.err]
        /\ Keep(acct, Committed(r, before))
        /\ UNCHANGED <<unix_timestamp, ext_vars, sl_vars>>

DepositSolAndTakeLoan(owner, sol_amount, usdc_amount, ltv, answer) ==
    DepositSolAndTakeLoanOn("user_account", owner, sol_amount, usdc_amount, ltv, answer)

\* `init, payer = owner, space = 8 + 32 + 8 + 8 + 8 + (200 * MAX_LOANS_PER_USER)`:
\* the signer pays the rent of the new user account.
initialize(before, owner) ==
    LET rent == minimum_balance(8 + 32 + 8 + 8 + 8 + (200 * MAX_LOANS_PER_USER))
    IN  IF before.ua.initialized THEN Return("AccountAlreadyInUse", before)
        ELSE IF before.lamports[owner] < rent THEN Return("SystemTransferFailed", before)
        ELSE Return("Ok", [before EXCEPT
                             !.lamports[owner] = @ - rent,
                             !.ua = [initialized |-> TRUE, owner |-> owner,
                                     sol_balance |-> 0, usdc_balance |-> 0,
                                     loan_count |-> 0, loans |-> <<>>]])

\* initialize given the user account acct.
InitializeOn(acct, owner) ==
    LET before == Given(acct)
        r == initialize(before, owner)
    IN  /\ result' = [op |-> "initialize", err |-> r.err]
        /\ Keep(acct, Committed(r, before))
        /\ UNCHANGED <<unix_timestamp, ext_vars, sl_vars>>

Initialize(owner) == InitializeOn("user_account", owner)

\* `init, payer = payer` of the mint (82 bytes) and of the contract's
\* associated token account (165 bytes), then token::mint_to of
\* INITIAL_USDC_SUPPLY to that account.
create_usdc_mint(before, payer) ==
    LET \* the accounts after the mint was created
        mint_created == [before EXCEPT !.lamports[payer] = @ - minimum_balance(82)]
        \* after the contract's token account was created, holding nothing
        account_created == [mint_created EXCEPT
                              !.lamports[payer] = @ - minimum_balance(165),
                              !.tokens["contract"] = <<>>]
    IN  IF before.tokens["contract"] # None THEN Return("AccountAlreadyInUse", before)
        ELSE IF before.lamports[payer] < minimum_balance(82)
             THEN Return("SystemTransferFailed", before)
        ELSE IF before.lamports[payer] - minimum_balance(82) < minimum_balance(165)
             THEN Return("SystemTransferFailed", mint_created)
        ELSE Return("Ok", [account_created EXCEPT !.tokens["contract"] = INITIAL_USDC_SUPPLY])

CreateUsdcMint(payer) ==
    LET before == Given("user_account")
        r == create_usdc_mint(before, payer)
    IN  /\ result' = [op |-> "create_usdc_mint", err |-> r.err]
        /\ Keep("user_account", Committed(r, before))
        /\ UNCHANGED <<unix_timestamp, ext_vars, sl_vars>>

\* A withdrawal checked against the lamports of the account instead of the
\* free balance.
withdraw_sol_OfLamports(before, owner, amount) ==
    LET moved == [before EXCEPT !.lamports["user_account"] = @ - amount,
                                !.lamports[owner] = @ + amount]
    IN  IF AccountsError(before.ua, owner) # "Ok"
        THEN Return(AccountsError(before.ua, owner), before)
        ELSE IF ~(before.lamports["user_account"] >= amount)
             THEN Return("InsufficientFunds", before)
        ELSE Return("Ok", [moved EXCEPT
                             !.ua.sol_balance = IF @ >= amount THEN @ - amount ELSE 0])

\* A withdrawal that refuses the whole free balance.
withdraw_sol_Strict(before, owner, amount) ==
    LET rent == minimum_balance(8 + 32 + 8 + 8 + 8 + (200 * MAX_LOANS_PER_USER))
        lamports == rent + before.lamports["user_account"]
        left == IF lamports >= amount
                THEN before.lamports["user_account"] - amount
                ELSE BigSub(BigSub(TwoPow64, Big(amount - lamports)), Big(rent))
        moved == [before EXCEPT !.lamports["user_account"] = left,
                                !.lamports[owner] = @ + amount]
    IN  IF AccountsError(before.ua, owner) # "Ok"
        THEN Return(AccountsError(before.ua, owner), before)
        ELSE IF ~(before.ua.sol_balance > amount) THEN Return("InsufficientFunds", before)
        ELSE IF lamports < amount /\ overflow_checks THEN Return("Panic", before)
        ELSE Return("Ok", [moved EXCEPT !.ua.sol_balance = @ - amount])

withdraw_sol(before, owner, amount) ==
    LET ua == before.ua
        sol_balance1 == checked_sub(Big(ua.sol_balance), Big(amount))
        \* the lamports of the user account, the rent of its
        \* 8 + 32 + 8 + 8 + 8 + (200 * MAX_LOANS_PER_USER) bytes included
        rent == minimum_balance(8 + 32 + 8 + 8 + 8 + (200 * MAX_LOANS_PER_USER))
        lamports == rent + before.lamports["user_account"]
        \* what the unchecked `-= amount` leaves above the rent: lamports below
        \* amount wrap modulo 2^64 in a build without overflow checks, and the
        \* value, beyond the integers, is then held as its digits
        left == IF lamports >= amount
                THEN before.lamports["user_account"] - amount
                ELSE BigSub(BigSub(TwoPow64, Big(amount - lamports)), Big(rent))
        \* the accounts after the lamports have moved to the owner
        moved == [before EXCEPT !.lamports["user_account"] = left,
                                !.lamports[owner] = @ + amount]
    IN  IF AccountsError(before.ua, owner) # "Ok"
        THEN Return(AccountsError(before.ua, owner), before)
        ELSE IF ~(ua.sol_balance >= amount) THEN Return("InsufficientFunds", before)
        \* the `-=` panics in a build with overflow checks, before any write
        ELSE IF lamports < amount /\ overflow_checks THEN Return("Panic", before)
        ELSE IF sol_balance1 = None THEN Return("ArithmeticOverflow", moved)
        ELSE Return("Ok", [moved EXCEPT !.ua.sol_balance = ToInt(sol_balance1)])

\* withdraw_sol given the user account acct.
WithdrawSolOn(acct, owner, amount) ==
    LET before == Given(acct)
        r == withdraw_sol(before, owner, amount)
    IN  /\ result' = [op |-> "withdraw_sol", err |-> r.err]
        /\ Keep(acct, Committed(r, before))
        /\ UNCHANGED <<unix_timestamp, ext_vars, sl_vars>>

WithdrawSol(owner, amount) == WithdrawSolOn("user_account", owner, amount)

\* loans.iter().position(|loan| loan.id == loan_id), 0 for None
LoanIndex(loans, loan_id) ==
    IF \E i \in 1..Len(loans) : loans[i].id = loan_id
    THEN CHOOSE i \in 1..Len(loans) :
            /\ loans[i].id = loan_id
            /\ \A j \in 1..(i - 1) : loans[j].id # loan_id
    ELSE 0

\* A removal of the first loan instead of the loan at the index.
RemoveAt_First(seq, i) == Tail(seq)

\* Vec::remove(index)
RemoveAt(seq, i) == SubSeq(seq, 1, i - 1) \o SubSeq(seq, i + 1, Len(seq))

\* An interest that divides the principal by the year before multiplying.
lg_interest_DivideFirst(loan, now) ==
    LET duration == now - loan.start_date
    IN  checked_div(
            checked_mul(checked_mul(checked_div(Big(loan.principal), Big(SECONDS_IN_A_YEAR)),
                                    Big(loan.apy)),
                        as_u64(duration)),
            Big(100))

\* An interest that leaves out the division by 100 of the rate in percent.
lg_interest_NoPercent(loan, now) ==
    LET duration == now - loan.start_date
    IN  checked_div(
            checked_mul(checked_mul(as_u64(duration), Big(loan.apy)), Big(loan.principal)),
            Big(SECONDS_IN_A_YEAR))

\* An interest that turns the rate in percent into a whole factor first.
lg_interest_RateFirst(loan, now) ==
    LET duration == now - loan.start_date
    IN  checked_div(
            checked_mul(checked_mul(as_u64(duration), checked_div(Big(loan.apy), Big(100))),
                        Big(loan.principal)),
            Big(SECONDS_IN_A_YEAR))

\* interest of repay_loan: duration * apy * principal / SECONDS_IN_A_YEAR / 100
lg_interest(loan, now) ==
    LET duration == now - loan.start_date
    IN  checked_div(
            checked_div(
                checked_mul(checked_mul(as_u64(duration), Big(loan.apy)), Big(loan.principal)),
                Big(SECONDS_IN_A_YEAR)),
            Big(100))

lg_total_owed(loan, now) == checked_add(Big(loan.principal), lg_interest(loan, now))

\* A partial repayment that keeps the unpaid interest in the principal.
remaining_principal_WithInterest(total_owed, usdc_amount, interest) ==
    checked_sub(total_owed, usdc_amount)

\* The principal a partial repayment leaves.
remaining_principal(total_owed, usdc_amount, interest) ==
    LET remaining == checked_sub(total_owed, usdc_amount)
    IN  IF remaining = None THEN None
        ELSE IF BigLt(interest, remaining) THEN checked_sub(remaining, interest) ELSE <<>>

repay_loan(before, owner, loan_id, usdc_amount) ==
    LET ua == before.ua
        loan_index == LoanIndex(ua.loans, loan_id)
    \* `contract_usdc_account: Account<TokenAccount>` does not exist yet
    IN  IF before.tokens["contract"] = None THEN Return("AccountNotInitialized", before)
        ELSE IF AccountsError(before.ua, owner) # "Ok"
             THEN Return(AccountsError(before.ua, owner), before)
        ELSE IF owner # ua.owner THEN Return("UnauthorizedAccess", before)
        ELSE IF loan_index = 0 THEN Return("LoanNotFound", before)
        ELSE
        LET loan == ua.loans[loan_index]
            interest == lg_interest(loan, unix_timestamp)
            total_owed == IF interest = None THEN None
                          ELSE checked_add(Big(loan.principal), interest)
            usdc_balance1 == checked_sub(Big(ua.usdc_balance), Big(usdc_amount))
            sol_balance1 == checked_add(Big(ua.sol_balance), Big(loan.collateral))
            principal1 == remaining_principal(total_owed, Big(usdc_amount), interest)
            \* the accounts after token::transfer of usdc_amount to the contract
            paid == [before EXCEPT !.tokens["user"] = BigSub(@, Big(usdc_amount)),
                                   !.tokens["contract"] = BigAdd(@, Big(usdc_amount))]
            \* after `user_account.usdc_balance = ...checked_sub(usdc_amount)`
            booked == [paid EXCEPT !.ua.usdc_balance = ToInt(usdc_balance1)]
        IN  IF owner # loan.borrower THEN Return("UnauthorizedAccess", before)
            ELSE IF interest = None \/ total_owed = None
                 THEN Return("ArithmeticOverflow", before)
            ELSE IF ~BigLe(Big(usdc_amount), total_owed)
                 THEN Return("RepaymentAmountTooHigh", before)
            ELSE IF BigLt(before.tokens["user"], Big(usdc_amount))
                 THEN Return("TokenTransferFailed", before)
            ELSE IF usdc_balance1 = None THEN Return("ArithmeticOverflow", paid)
            ELSE IF Big(usdc_amount) = total_owed
            THEN IF sol_balance1 = None THEN Return("ArithmeticOverflow", booked)
                 ELSE Return("Ok", [booked EXCEPT !.ua.sol_balance = ToInt(sol_balance1),
                                                  !.ua.loans = RemoveAt(@, loan_index)])
            ELSE IF principal1 = None \/ checked_sub(Big(loan.principal), principal1) = None
                 THEN Return("ArithmeticOverflow", booked)
                 ELSE Return("Ok", [booked EXCEPT
                                      !.ua.loans[loan_index].principal = ToInt(principal1),
                                      !.ua.loans[loan_index].start_date = unix_timestamp])

\* repay_loan given the user account acct.
RepayLoanOn(acct, owner, loan_id, usdc_amount) ==
    LET before == Given(acct)
        r == repay_loan(before, owner, loan_id, usdc_amount)
    IN  /\ result' = [op |-> "repay_loan", err |-> r.err]
        /\ Keep(acct, Committed(r, before))
        /\ UNCHANGED <<unix_timestamp, ext_vars, sl_vars>>

RepayLoan(owner, loan_id, usdc_amount) ==
    RepayLoanOn("user_account", owner, loan_id, usdc_amount)

\* The clock of the ledger only moves forward.
AdvanceClock(t) ==
    /\ t > unix_timestamp
    /\ unix_timestamp' = t
    /\ UNCHANGED <<result, ext_vars, sl_vars, lg_vars>>

\* The single-loan program with nothing opened.
SingleLoanIdle ==
    /\ loan_account = NoLoanData
    /\ sl_opened = 0
    /\ overflow_checks = TRUE
    /\ rent_lamports_per_byte_year = 1
    /\ sl_lamports = [a \in {Borrower, Liquidator, "loan_account"} |-> 0]
    /\ sl_tokens = [a \in {Borrower, Liquidator, "program"} |-> <<>>]

LedgerOwner == "owner"
LedgerSigners == {"owner", "other"}

\* The first clock value, and one year after it.
LedgerStart == 1700000000
LedgerClocks == {LedgerStart + SECONDS_IN_A_YEAR}

\* The model originates at most this many loans.
MaxLoanCount == 2

SolAmounts == {0, 5000}
UsdcAmounts == {0, 1000}
Ltvs == {50, 30}
Answers == {0, 10000}
WithdrawAmounts == {3000, 5000}

\* The ids a repayment is tried with: every id handed out, and the next one.
LoanIds == 1..(user_account.loan_count + 1)

\* The amounts a repayment of a loan is tried with: a part, the principal,
\* the total owed and one more than the total owed.
RepayAmounts(loan_id) ==
    LET i == LoanIndex(user_account.loans, loan_id)
        owed == IF i = 0 THEN None ELSE lg_total_owed(user_account.loans[i], unix_timestamp)
    IN  {600} \cup (IF i = 0 THEN {} ELSE {user_account.loans[i].principal})
              \cup (IF owed = None \/ ~FitsInt(owed) THEN {}
                    ELSE {ToInt(owed), ToInt(owed) + 1})

Init ==
    /\ SingleLoanIdle
    /\ LedgerIdle
    /\ ExtIdle
    /\ unix_timestamp = LedgerStart
    /\ result = NoResult

Next ==
    \/ \E s \in {LedgerOwner} : Initialize(s)
    \/ \E s \in {LedgerOwner} : CreateUsdcMint(s)
    \/ \E s \in {LedgerOwner}, sol_amount \in SolAmounts, usdc_amount \in UsdcAmounts,
          ltv \in Ltvs, answer \in Answers :
          /\ user_account.loan_count < MaxLoanCount
          /\ DepositSolAndTakeLoan(s, sol_amount, usdc_amount, ltv, answer)
    \/ \E s \in {LedgerOwner}, loan_id \in LoanIds :
          \E usdc_amount \in RepayAmounts(loan_id) : RepayLoan(s, loan_id, usdc_amount)
    \/ \E s \in {LedgerOwner}, amount \in WithdrawAmounts : WithdrawSol(s, amount)
    \/ \E t \in LedgerClocks : AdvanceClock(t)

Spec == Init /\ [][Next]_vars

(***************************************************************************)
(* The single-loan program: liquidation.                                   *)
(***************************************************************************)
\* The values the specification speaks of, over the naturals: the seconds
\* accrued, total due (principal + accrued interest) and the collateral value.
SecondsAccrued(loan, now) == IF now >= loan.start_date THEN now - loan.start_date ELSE 0

TotalDue(loan, now) ==
    BigAdd(Big(loan.principal),
           BigDiv(BigMul(BigMul(Big(loan.principal), Big(loan.apy)),
                         Big(SecondsAccrued(loan, now))),
                  YearTimes100))

CollateralValue(loan) == BigDiv(BigMul(Big(loan.collateral), Big(SOL_PRICE)), Big(100))

Healthy(loan, now) == BigLe(TotalDue(loan, now), CollateralValue(loan))

\* C1: liquidate_loan succeeds only on a loan whose collateral value is
\* strictly less than total due; on a loan whose collateral value is at least
\* total due it fails with LoanNotUnderwater and the loan record, the lamports
\* and the token balances stay as they are.
C1_LiquidationSafety ==
    [][\A l \in Signers :
        (loan_account.has_data /\ LiquidateLoan(l)) =>
            /\ result'.err = "Ok" => ~Healthy(loan_account, unix_timestamp)
            /\ Healthy(loan_account, unix_timestamp) =>
                  /\ result'.err = "LoanNotUnderwater"
                  /\ UNCHANGED <<loan_account, sl_lamports, sl_tokens>>]_vars

\* C2: on a loan whose collateral value is strictly less than total due,
\* liquidate_loan by a signer holding at least total due succeeds, moves
\* exactly total due from the liquidator to the program, moves exactly the
\* collateral to the liquidator and closes the loan.
C2_LiquidationEffect ==
    [][\A l \in Signers :
        LET due == TotalDue(loan_account, unix_timestamp)
        IN  (/\ loan_account.has_data
             /\ ~Healthy(loan_account, unix_timestamp)
             /\ BigLe(due, sl_tokens[l])
             /\ LiquidateLoan(l)) =>
                /\ result'.err = "Ok"
                /\ sl_tokens'[l] = BigSub(sl_tokens[l], due)
                /\ sl_tokens'["program"] = BigAdd(sl_tokens["program"], due)
                /\ sl_lamports'[l] = sl_lamports[l] + loan_account.collateral
                /\ ~loan_account'.has_data]_vars

(***************************************************************************)
(* The ledger driven to its maximum number of loans: every argument of an  *)
(* origination has a value that passes and a value that a check refuses.   *)
(***************************************************************************)
\* The model hands out at most this many loan ids.
MaxLoanIds == 6

MlSolAmounts == {1000, 20000}
MlUsdcAmounts == {100, 2000000000}
MlLtvs == {50, 30}
MlAnswers == {10000, 0}

\* A loan is repaid with exactly what it owes.
MlRepayAmounts(loan_id) ==
    LET i == LoanIndex(user_account.loans, loan_id)
        owed == IF i = 0 THEN None ELSE lg_total_owed(user_account.loans[i], unix_timestamp)
    IN  IF owed = None \/ ~FitsInt(owed) THEN {} ELSE {ToInt(owed)}

NextMaxLoans ==
    \/ \E s \in {LedgerOwner} : Initialize(s)
    \/ \E s \in {LedgerOwner} : CreateUsdcMint(s)
    \/ \E s \in LedgerSigners, sol_amount \in MlSolAmounts, usdc_amount \in MlUsdcAmounts,
          ltv \in MlLtvs, answer \in MlAnswers :
          /\ user_account.loan_count < MaxLoanIds
          /\ DepositSolAndTakeLoan(s, sol_amount, usdc_amount, ltv, answer)
    \/ \E s \in LedgerSigners, loan_id \in LoanIds :
          \E usdc_amount \in MlRepayAmounts(loan_id) : RepayLoan(s, loan_id, usdc_amount)

SpecMaxLoans == Init /\ [][NextMaxLoans]_vars

(***************************************************************************)
(* The multi-loan ledger: the position.                                    *)
(***************************************************************************)
RECURSIVE SumCollateral(_)
SumCollateral(loans) ==
    IF loans = <<>> THEN 0 ELSE Head(loans).collateral + SumCollateral(Tail(loans))

\* The values the specification speaks of, over the naturals: the interest is
\* principal * apy * seconds / (SECONDS_IN_A_YEAR * 100), rounded down
\* (dividing by the year and then by 100 is dividing by their product).
InterestOwed(loan, now) ==
    BigDiv(BigDiv(BigMul(BigMul(Big(loan.principal), Big(loan.apy)),
                         Big(SecondsAccrued(loan, now))),
                  Big(SECONDS_IN_A_YEAR)),
           Big(100))

TotalOwed(loan, now) == BigAdd(Big(loan.principal), InterestOwed(loan, now))

\* C3, as the specification states it: sol_balance is at least the sum of
\* the collateral of the open loans.
C3_SolBalanceCoversCollateral ==
    user_account.sol_balance >= SumCollateral(user_account.loans)

\* C3, amended: sol_balance is the free balance only, and with the collateral
\* of the open loans it makes up the lamports deposited and not withdrawn, so
\* these lamports are at least the sum of the collateral of the open loans.
C3_DepositsCoverCollateral ==
    /\ user_account.sol_balance + SumCollateral(user_account.loans)
          = lg_lamports["user_account"]
    /\ lg_lamports["user_account"] >= SumCollateral(user_account.loans)

C3_Witness ==
    /\ result.err = "Ok"
    /\ SumCollateral(user_account.loans) > 0
    /\ user_account.sol_balance < SumCollateral(user_account.loans)

\* C4: repay_loan by the owner with usdc_amount equal to total owed, at a
\* clock not before the loan's start and with the user holding the tokens,
\* succeeds, adds the collateral of the loan to sol_balance and removes the
\* loan.
C4_FullRepayment ==
    [][result'.op = "repay_loan" => \A i \in 1..Len(user_account.loans) :
        LET loan == user_account.loans[i]
        IN  \A usdc_amount \in RepayAmounts(loan.id) :
              (/\ RepayLoan(user_account.owner, loan.id, usdc_amount)
               /\ unix_timestamp >= loan.start_date
               /\ Big(usdc_amount) = TotalOwed(loan, unix_timestamp)
               /\ BigLe(Big(usdc_amount), lg_tokens["user"])) =>
                  /\ result'.err = "Ok"
                  /\ user_account'.sol_balance = user_account.sol_balance + loan.collateral
                  /\ user_account'.loans
                        = SelectSeq(user_account.loans, LAMBDA l : l.id # loan.id)]_vars

\* C5: after a successful repay_loan with usdc_amount less than total owed,
\* the total owed by the loan, computed again at the same clock, is the total
\* owed before the call less usdc_amount.
C5_UnpaidInterestStaysOwed ==
    [][result' = [op |-> "repay_loan", err |-> "Ok"] => \A i \in 1..Len(user_account.loans) :
        LET loan == user_account.loans[i]
            total_owed == TotalOwed(loan, unix_timestamp)
        IN  \A usdc_amount \in RepayAmounts(loan.id) :
              (/\ RepayLoan(user_account.owner, loan.id, usdc_amount)
               /\ BigLt(Big(usdc_amount), total_owed)) =>
                  /\ Len(user_account'.loans) = Len(user_account.loans)
                  /\ TotalOwed(user_account'.loans[i], unix_timestamp')
                        = BigSub(total_owed, Big(usdc_amount))]_vars

\* C6: a successful repay_loan with usdc_amount less than total owed keeps
\* the loan with its id, apy, ltv, borrower and collateral, sets its principal
\* to total owed - usdc_amount - interest when total owed - usdc_amount exceeds
\* the interest and to 0 otherwise, sets its start_date to the clock, and
\* leaves sol_balance and every other loan as they are.
C6_PartialRepaymentUpdate ==
    [][result' = [op |-> "repay_loan", err |-> "Ok"] =>
        \A i \in 1..Len(user_account.loans) :
        LET loan == user_account.loans[i]
            interest == InterestOwed(loan, unix_timestamp)
            total_owed == BigAdd(Big(loan.principal), interest)
        IN  \A usdc_amount \in RepayAmounts(loan.id) :
              LET remaining == BigSub(total_owed, Big(usdc_amount))
                  principal == IF BigLt(interest, remaining)
                               THEN ToInt(BigSub(remaining, interest)) ELSE 0
              IN  \/ ~BigLt(Big(usdc_amount), total_owed)
                  \/ /\ user_account'.loans
                            = [user_account.loans EXCEPT
                                  ![i] = Loan(loan.id, unix_timestamp, principal, loan.apy,
                                              loan.collateral, loan.ltv, loan.borrower)]
                     /\ user_account'.sol_balance = user_account.sol_balance
                  \/ ~RepayLoan(user_account.owner, loan.id, usdc_amount)]_vars

\* A partial repayment of a loan that had accrued interest has just happened.
C6_Witness ==
    /\ result = [op |-> "repay_loan", err |-> "Ok"]
    /\ unix_timestamp > LedgerStart
    /\ \E i \in 1..Len(user_account.loans) :
          /\ user_account.loans[i].start_date = unix_timestamp
          /\ user_account.loans[i].collateral > 0
          /\ user_account.loans[i].apy > 0
          /\ user_account.loans[i].principal = 400
          /\ user_account.usdc_balance = 400

\* C7: every loan in `loans` has a principal above 0.
C7_PrincipalPositive ==
    \A i \in 1..Len(user_account.loans) : user_account.loans[i].principal > 0

\* C8: withdraw_sol by the owner succeeds exactly when the amount is at most
\* sol_balance, and then takes exactly the amount from sol_balance and leaves
\* the loans; otherwise it fails with InsufficientFunds and changes nothing.
\* The lamports left in the account cover the collateral of the open loans.
C8_WithdrawFreeOnly ==
    [][result'.op = "withdraw_sol" => \A amount \in WithdrawAmounts :
        (user_account.initialized /\ WithdrawSol(user_account.owner, amount)) =>
            /\ IF amount <= user_account.sol_balance
               THEN /\ result'.err = "Ok"
                    /\ user_account'
                          = [user_account EXCEPT !.sol_balance = @ - amount]
                    /\ lg_lamports'["user_account"] = lg_lamports["user_account"] - amount
               ELSE /\ result'.err = "InsufficientFunds"
                    /\ UNCHANGED lg_vars
            /\ lg_lamports'["user_account"] >= SumCollateral(user_account'.loans)]_vars

\* A withdrawal that would have reached into committed collateral was refused.
C8_Witness ==
    /\ result = [op |-> "withdraw_sol", err |-> "InsufficientFunds"]
    /\ SumCollateral(user_account.loans) > 0
    /\ user_account.sol_balance < 3000
    /\ lg_lamports["user_account"] >= 5000

\* C9: `loans` never holds more than MAX_LOANS_PER_USER loans.
C9_MaxLoans == Len(user_account.loans) <= MAX_LOANS_PER_USER

\* The maximum is reached again after a loan was closed.
C9_Witness ==
    /\ Len(user_account.loans) = MAX_LOANS_PER_USER
    /\ user_account.loan_count > MAX_LOANS_PER_USER

\* C10: with 5 open loans deposit_sol_and_take_loan fails with
\* MaxLoansReached whatever its arguments, and nothing of the position, the
\* lamports or the tokens changes.
C10_SixthLoanRefused ==
    [][result'.op = "deposit_sol_and_take_loan" => \A sol_amount \in MlSolAmounts, usdc_amount \in MlUsdcAmounts,
          ltv \in MlLtvs, answer \in MlAnswers :
        (/\ Len(user_account.loans) = 5
         /\ DepositSolAndTakeLoan(user_account.owner, sol_amount, usdc_amount, ltv, answer)) =>
            /\ result'.err = "MaxLoansReached"
            /\ UNCHANGED lg_vars]_vars

C10_Witness ==
    /\ Len(user_account.loans) = 5
    /\ result = [op |-> "deposit_sol_and_take_loan", err |-> "MaxLoansReached"]


(***************************************************************************)
(* The ledger: loan ids.                                                   *)
(***************************************************************************)
LoanIdsOf(loans) == {loans[i].id : i \in 1..Len(loans)}

\* C11: loan_count never decreases; only a successful origination adds a loan
\* or changes loan_count, it gives the new loan the id loan_count + 1 and
\* raises loan_count to it, keeping the ids of the loans before it; the ids of the
\* open loans are pairwise distinct and none exceeds loan_count, so the id of
\* a closed loan is never handed out again.
C11_LoanIdsUnique ==
    [][/\ user_account'.loan_count >= user_account.loan_count
       /\ (\/ user_account'.loan_count # user_account.loan_count
           \/ Len(user_account'.loans) > Len(user_account.loans)) =>
             /\ result' = [op |-> "deposit_sol_and_take_loan", err |-> "Ok"]
             /\ user_account'.loan_count = user_account.loan_count + 1
             /\ Len(user_account'.loans) = Len(user_account.loans) + 1
             /\ user_account'.loans[Len(user_account'.loans)].id = user_account.loan_count + 1
             /\ LoanIdsOf(user_account'.loans) \cap (1..user_account.loan_count)
                    = LoanIdsOf(user_account.loans)
       /\ \A i, j \in 1..Len(user_account'.loans) :
             i # j => user_account'.loans[i].id # user_account'.loans[j].id
       /\ \A i \in 1..Len(user_account'.loans) :
             user_account'.loans[i].id \in 1..user_account'.loan_count]_vars

\* A loan was closed and a later one originated beside an earlier one: the
\* ids of the open loans have a gap and the newest id is loan_count.
C11_Witness ==
    /\ result = [op |-> "deposit_sol_and_take_loan", err |-> "Ok"]
    /\ Len(user_account.loans) >= 2
    /\ Len(user_account.loans) < user_account.loan_count
    /\ user_account.loans[Len(user_account.loans)].id = user_account.loan_count
    /\ \E k \in 2..(user_account.loan_count - 1) : k \notin LoanIdsOf(user_account.loans)
    /\ 1 \in LoanIdsOf(user_account.loans)

(***************************************************************************)
(* The ledger with every row of the table of ltv and apy.                   *)
(***************************************************************************)
\* The model originates at most this many loans.
MaxTableLoans == 2

\* The ends of the range of a u8, the rows of the table and their neighbours.
TableLtvs == {0, 19, 20, 21, 24, 25, 26, 32, 33, 34, 49, 50, 51, 100, 255}
TableSolAmounts == {0, 5000}
TableUsdcAmounts == {1000}
TableAnswers == {10000}

NextTable ==
    \/ Initialize(LedgerOwner)
    \/ CreateUsdcMint(LedgerOwner)
    \/ \E sol_amount \in TableSolAmounts, usdc_amount \in TableUsdcAmounts,
          ltv \in TableLtvs, answer \in TableAnswers :
          /\ user_account.loan_count < MaxTableLoans
          /\ DepositSolAndTakeLoan(LedgerOwner, sol_amount, usdc_amount, ltv, answer)
    \/ \E loan_id \in LoanIds :
          \E usdc_amount \in RepayAmounts(loan_id) : RepayLoan(LedgerOwner, loan_id, usdc_amount)
    \/ \E t \in LedgerClocks : AdvanceClock(t)

SpecTable == Init /\ [][NextTable]_vars

\* The table of the specification: the pairs of ltv and apy.
LtvApyTable == {<<20, 0>>, <<25, 1>>, <<33, 5>>, <<50, 8>>}
TableLtv == {pair[1] : pair \in LtvApyTable}

\* C12: deposit_sol_and_take_loan with an ltv outside {20, 25, 33, 50} fails
\* and changes nothing, with InvalidLTV whenever the call gets as far as the
\* match on ltv (the account is the signer's, the contract's USDC account
\* exists, the account has room for a loan and the signer holds sol_amount);
\* every loan of every state has its ltv and apy paired as in the table; no
\* operation changes the ltv or the apy of a loan.
C12_LtvTable ==
    [][/\ result'.op = "deposit_sol_and_take_loan" =>
            \A sol_amount \in TableSolAmounts, usdc_amount \in TableUsdcAmounts,
               ltv \in TableLtvs \ TableLtv, answer \in TableAnswers :
               \/ /\ result'.err # "Ok"
                  /\ UNCHANGED lg_vars
                  /\ (/\ user_account.initialized
                      /\ lg_tokens["contract"] # None
                      /\ Len(user_account.loans) < MAX_LOANS_PER_USER
                      /\ lg_lamports[LedgerOwner] >= sol_amount) => result'.err = "InvalidLTV"
               \/ ~DepositSolAndTakeLoan(LedgerOwner, sol_amount, usdc_amount, ltv, answer)
       /\ \A i \in 1..Len(user_account'.loans) :
             <<user_account'.loans[i].ltv, user_account'.loans[i].apy>> \in LtvApyTable
       /\ \A i \in 1..Len(user_account.loans), j \in 1..Len(user_account'.loans) :
             user_account.loans[i].id = user_account'.loans[j].id =>
                /\ user_account'.loans[j].ltv = user_account.loans[i].ltv
                /\ user_account'.loans[j].apy = user_account.loans[i].apy]_vars

\* An ltv outside the table was refused while a loan of the row (33, 5) is
\* open and has been repaid in part.
C12_Witness ==
    /\ result = [op |-> "deposit_sol_and_take_loan", err |-> "InvalidLTV"]
    /\ Len(user_account.loans) = 1
    /\ <<user_account.loans[1].ltv, user_account.loans[1].apy>> = <<33, 5>>
    /\ user_account.loans[1].principal < 1000


(***************************************************************************)
(* The ledger: origination.                                                *)
(***************************************************************************)
\* The collateral the specification requires, over the naturals:
\* usdc_amount * 100 / ltv * 10000 / price, each division truncating.
RequiredCollateral(usdc_amount, ltv, price) ==
    BigDiv(BigMul(BigDiv(BigMul(Big(usdc_amount), Big(100)), Big(ltv)), Big(10000)), Big(price))

TableApy(ltv) == (CHOOSE pair \in LtvApyTable : pair[1] = ltv)[2]

\* C13: an origination succeeds only if the free collateral, sol_balance
\* with sol_amount credited, is at least the required collateral of
\* (usdc_amount, ltv, price); an origination that gets as far as the
\* comparison with less free collateral fails with InsufficientCollateral,
\* creates no loan and moves no lamports and no tokens.
C13_CollateralCheck ==
    [][result'.op = "deposit_sol_and_take_loan" =>
        \A sol_amount \in TableSolAmounts, usdc_amount \in TableUsdcAmounts,
           ltv \in TableLtvs \cap TableLtv, answer \in TableAnswers :
           LET required == RequiredCollateral(usdc_amount, ltv, answer)
               free == Big(user_account.sol_balance + sol_amount)
           IN  \/ /\ result'.err = "Ok" => BigLe(required, free)
                  /\ (/\ user_account.initialized
                      /\ lg_tokens["contract"] # None
                      /\ Len(user_account.loans) < MAX_LOANS_PER_USER
                      /\ lg_lamports[LedgerOwner] >= sol_amount
                      /\ BigLt(free, required)) =>
                         /\ result'.err = "InsufficientCollateral"
                         /\ UNCHANGED lg_vars
               \/ ~DepositSolAndTakeLoan(LedgerOwner, sol_amount, usdc_amount, ltv, answer)]_vars

\* An origination was refused for want of collateral while some collateral
\* is free.
C13_Witness ==
    /\ result = [op |-> "deposit_sol_and_take_loan", err |-> "InsufficientCollateral"]
    /\ Len(user_account.loans) = 1
    /\ user_account.sol_balance = 1970

\* C14: a successful origination appends exactly one loan, with id the old
\* loan_count + 1, start_date the clock, principal usdc_amount, the apy of the
\* table, collateral the required collateral and borrower the owner, leaves
\* the loans before it as they are, raises loan_count by one, lowers the free
\* collateral (with sol_amount credited) by the required collateral and
\* moves exactly usdc_amount of tokens to the borrower.
C14_OriginationEffect ==
    [][result' = [op |-> "deposit_sol_and_take_loan", err |-> "Ok"] =>
        \A sol_amount \in TableSolAmounts, usdc_amount \in TableUsdcAmounts,
           ltv \in TableLtvs, answer \in TableAnswers :
           DepositSolAndTakeLoan(LedgerOwner, sol_amount, usdc_amount, ltv, answer) =>
              LET required == ToInt(RequiredCollateral(usdc_amount, ltv, answer))
              IN  /\ user_account'.loans =
                        Append(user_account.loans,
                               [id |-> user_account.loan_count + 1,
                                start_date |-> unix_timestamp,
                                principal |-> usdc_amount,
                                apy |-> TableApy(ltv),
                                collateral |-> required,
                                ltv |-> ltv,
                                borrower |-> user_account.owner])
                  /\ user_account'.loan_count = user_account.loan_count + 1
                  /\ user_account'.sol_balance =
                        user_account.sol_balance + sol_amount - required
                  /\ user_account'.owner = user_account.owner
                  /\ lg_tokens'["user"] = BigAdd(lg_tokens["user"], Big(usdc_amount))
                  /\ lg_tokens'["contract"] = BigSub(lg_tokens["contract"], Big(usdc_amount))
                  /\ lg_lamports'["user_account"] = lg_lamports["user_account"] + sol_amount
                  /\ lg_lamports'[LedgerOwner] = lg_lamports[LedgerOwner] - sol_amount]_vars

\* A loan of the row (20, 0) was originated one year after a loan of the
\* row (33, 5).
C14_Witness ==
    /\ result = [op |-> "deposit_sol_and_take_loan", err |-> "Ok"]
    /\ Len(user_account.loans) = 2
    /\ user_account.loans[1].collateral = 3030
    /\ user_account.loans[2].ltv = 20
    /\ user_account.loans[2].collateral = 5000
    /\ user_account.loans[2].start_date = unix_timestamp
    /\ user_account.loans[1].start_date < unix_timestamp

(***************************************************************************)
(* The ledger: refused repayments.                                         *)
(***************************************************************************)
\* C15: repay_loan of an open loan by the owner with usdc_amount greater
\* than the total owed (principal plus the interest accrued since
\* start_date) fails with RepaymentAmountTooHigh, moves no tokens and leaves
\* the account and its loans as they are.
C15_RepaymentTooHigh ==
    [][result'.op = "repay_loan" =>
        \/ /\ result'.err = "RepaymentAmountTooHigh"
           /\ UNCHANGED lg_vars
        \/ \A i \in 1..Len(user_account.loans) :
              LET loan == user_account.loans[i]
                  total_owed == TotalOwed(loan, unix_timestamp)
              IN  \A usdc_amount \in RepayAmounts(loan.id) :
                    ~(/\ BigLt(total_owed, Big(usdc_amount))
                      /\ RepayLoan(user_account.owner, loan.id, usdc_amount))]_vars

\* One more than the total owed was refused on a loan that has accrued
\* interest for a year.
C15_Witness ==
    /\ result = [op |-> "repay_loan", err |-> "RepaymentAmountTooHigh"]
    /\ \E i \in 1..Len(user_account.loans) :
          /\ user_account.loans[i].start_date < unix_timestamp
          /\ user_account.loans[i].principal = 1000

(***************************************************************************)
(* The ledger called by its owner and by another signer.                   *)
(***************************************************************************)
\* The model originates at most this many loans.
MaxAuthLoans == 2

AuthSolAmounts == {0, 5000}
AuthUsdcAmounts == {1000}
AuthLtvs == {50}
AuthAnswers == {10000}
AuthWithdrawAmounts == {3000}
AuthRepayAmounts == {600, 1000}

NextAuth ==
    \/ Initialize(LedgerOwner)
    \/ \E s \in LedgerSigners : CreateUsdcMint(s)
    \/ \E s \in LedgerSigners, sol_amount \in AuthSolAmounts, usdc_amount \in AuthUsdcAmounts,
          ltv \in AuthLtvs, answer \in AuthAnswers :
          /\ user_account.loan_count < MaxAuthLoans
          /\ DepositSolAndTakeLoan(s, sol_amount, usdc_amount, ltv, answer)
    \/ \E s \in LedgerSigners, loan_id \in LoanIds :
          \E usdc_amount \in AuthRepayAmounts : RepayLoan(s, loan_id, usdc_amount)
    \/ \E s \in LedgerSigners, amount \in AuthWithdrawAmounts : WithdrawSol(s, amount)

SpecAuth == Init /\ [][NextAuth]_vars

\* C16: repay_loan, withdraw_sol and deposit_sol_and_take_loan signed by
\* anyone but the owner of the account fail and change nothing; repay_loan
\* fails and changes nothing when the signer is not the borrower the loan
\* records; repay_loan by the owner with a loan_id that no loan of the
\* account has, once the contract's USDC account exists, fails with
\* LoanNotFound and changes nothing.
C16_Authorization ==
    [][/\ result'.op = "deposit_sol_and_take_loan" =>
            \A s \in LedgerSigners \ {user_account.owner} :
               \A sol_amount \in AuthSolAmounts, usdc_amount \in AuthUsdcAmounts,
                  ltv \in AuthLtvs, answer \in AuthAnswers :
                  DepositSolAndTakeLoan(s, sol_amount, usdc_amount, ltv, answer) =>
                     result'.err # "Ok" /\ UNCHANGED lg_vars
       /\ result'.op = "withdraw_sol" =>
            \A s \in LedgerSigners \ {user_account.owner}, amount \in AuthWithdrawAmounts :
               WithdrawSol(s, amount) => result'.err # "Ok" /\ UNCHANGED lg_vars
       /\ result'.op = "repay_loan" =>
            \A s \in LedgerSigners, loan_id \in LoanIds :
               \A usdc_amount \in AuthRepayAmounts :
                  RepayLoan(s, loan_id, usdc_amount) =>
                     /\ s # user_account.owner => result'.err # "Ok" /\ UNCHANGED lg_vars
                     /\ (\E i \in 1..Len(user_account.loans) :
                           /\ user_account.loans[i].id = loan_id
                           /\ user_account.loans[i].borrower # s) =>
                              result'.err # "Ok" /\ UNCHANGED lg_vars
                     /\ (/\ s = user_account.owner
                         /\ lg_tokens["contract"] # None
                         /\ loan_id \notin LoanIdsOf(user_account.loans)) =>
                              result'.err = "LoanNotFound" /\ UNCHANGED lg_vars]_vars

\* A withdrawal by the other signer was refused while the account holds free
\* collateral and an open loan.
C16_Witness ==
    /\ result = [op |-> "withdraw_sol", err |-> "ConstraintHasOne"]
    /\ user_account.sol_balance >= 3000
    /\ Len(user_account.loans) = 1
    /\ user_account.loan_count = 2

(***************************************************************************)
(* The ledger: origination followed by repayment.                          *)
(***************************************************************************)
\* C17: right after a successful origination, at the same clock value,
\* repay_loan of the new loan with usdc_amount its principal succeeds,
\* removes the loan and leaves the loans before it as they are, returns
\* exactly its collateral to sol_balance and takes exactly its principal from
\* usdc_balance and from the tokens of the user; with the effect of the
\* origination these are the values before the origination, sol_balance
\* raised by sol_amount.
C17_RoundTrip ==
    [][(/\ result = [op |-> "deposit_sol_and_take_loan", err |-> "Ok"]
        /\ result'.op = "repay_loan") =>
          LET n == Len(user_account.loans)
              loan == user_account.loans[n]
          IN  (/\ loan.start_date = unix_timestamp
               /\ RepayLoan(user_account.owner, loan.id, loan.principal)) =>
                  /\ result'.err = "Ok"
                  /\ user_account'.loans = SubSeq(user_account.loans, 1, n - 1)
                  /\ user_account'.sol_balance = user_account.sol_balance + loan.collateral
                  /\ user_account'.usdc_balance = user_account.usdc_balance - loan.principal
                  /\ user_account'.loan_count = user_account.loan_count
                  /\ lg_tokens'["user"] = BigSub(lg_tokens["user"], Big(loan.principal))
                  /\ lg_tokens'["contract"] = BigAdd(lg_tokens["contract"], Big(loan.principal))
                  /\ lg_lamports' = lg_lamports
                  /\ user_account'.sol_balance + SumCollateral(user_account'.loans)
                        = lg_lamports'["user_account"]]_vars

\* The second loan was repaid in full and the first, originated a year
\* before, is still open.
C17_Witness ==
    /\ result = [op |-> "repay_loan", err |-> "Ok"]
    /\ user_account.loan_count = 2
    /\ Len(user_account.loans) = 1
    /\ user_account.loans[1].id = 1
    /\ user_account.loans[1].principal = 1000
    /\ user_account.loans[1].start_date < unix_timestamp
    /\ user_account.usdc_balance = 1000

(***************************************************************************)
(* Both lending programs on one cluster: every instruction of either runs  *)
(* as a transaction of its own.                                            *)
(***************************************************************************)
\* The model originates at most this many loans in the ledger.
MaxAtomicLoans == 1

AtomicSolAmounts == {0, 5000}
AtomicUsdcAmounts == {1000}
AtomicLtvs == {50, 30}
AtomicAnswers == {10000}
AtomicWithdrawAmounts == {3000}

\* The loan of the unit tests is open, its account funded with its collateral
\* and free of rent; the liquidator holds more than the total due.
InitAtomic ==
    /\ LedgerIdle
    /\ ExtIdle
    /\ unix_timestamp = LedgerStart
    /\ result = NoResult
    /\ overflow_checks = TRUE
    /\ rent_lamports_per_byte_year = 0
    /\ loan_account = TestLoan
    /\ sl_opened = 0
    /\ sl_lamports = [a \in {Borrower, Liquidator, "loan_account"} |->
                        IF a = "loan_account" THEN 100000000
                        ELSE IF a = Borrower THEN 900000000
                        ELSE 1000000000]
    /\ sl_tokens = [a \in {Borrower, Liquidator, "program"} |->
                        IF a = Borrower THEN Big(1100000000) ELSE OneMillionUsdc]

NextAtomic ==
    \/ Initialize(LedgerOwner)
    \/ CreateUsdcMint(LedgerOwner)
    \/ \E sol_amount \in AtomicSolAmounts, usdc_amount \in AtomicUsdcAmounts,
          ltv \in AtomicLtvs, answer \in AtomicAnswers :
          /\ user_account.loan_count < MaxAtomicLoans
          /\ DepositSolAndTakeLoan(LedgerOwner, sol_amount, usdc_amount, ltv, answer)
    \/ \E loan_id \in LoanIds :
          \E usdc_amount \in RepayAmounts(loan_id) : RepayLoan(LedgerOwner, loan_id, usdc_amount)
    \/ \E amount \in AtomicWithdrawAmounts : WithdrawSol(LedgerOwner, amount)
    \/ \E t \in LedgerClocks : AdvanceClock(t)
    \/ \E b \in Signers : SlRepayLoan(b, Big(105000000))
    \/ \E l \in Signers : LiquidateLoan(l)

SpecAtomic == InitAtomic /\ [][NextAtomic]_vars

C19_CheckedArithmetic ==
    loan_account.has_data =>
        LET total_due == sl_total_due(loan_account, unix_timestamp)
        IN  \/ total_due \in {None, Panic}
            \/ /\ unix_timestamp >= loan_account.start_date
               /\ total_due = TotalDue(loan_account, unix_timestamp)

(***************************************************************************)
(* The ledger under a clock that is set back.                              *)
(***************************************************************************)
\* The model originates at most this many loans.
MaxRollbackLoans == 2

\* One day before the first clock value.
RollbackClocks == {LedgerStart - 86400}
RollbackSolAmounts == {5000}
RollbackUsdcAmounts == {1, 1000}
RollbackLtvs == {20, 25, 50}
RollbackAnswers == {10000}

\* The clock sysvar reports an earlier time than it did.
ClockRollback(t) ==
    /\ t < unix_timestamp
    /\ unix_timestamp' = t
    /\ UNCHANGED <<result, ext_vars, sl_vars, lg_vars>>

NextRollback ==
    \/ Initialize(LedgerOwner)
    \/ CreateUsdcMint(LedgerOwner)
    \/ \E sol_amount \in RollbackSolAmounts, usdc_amount \in RollbackUsdcAmounts,
          ltv \in RollbackLtvs, answer \in RollbackAnswers :
          /\ user_account.loan_count < MaxRollbackLoans
          /\ DepositSolAndTakeLoan(LedgerOwner, sol_amount, usdc_amount, ltv, answer)
    \/ \E loan_id \in LoanIds :
          \E usdc_amount \in RepayAmounts(loan_id) : RepayLoan(LedgerOwner, loan_id, usdc_amount)
    \/ \E t \in RollbackClocks : ClockRollback(t)

SpecRollback == Init /\ [][NextRollback]_vars

\* C20: repay_loan of any loan while the clock is earlier than the
\* start_date of the loan fails with ArithmeticOverflow and changes nothing.
C20_ClockRollback ==
    [][result'.op = "repay_loan" => \A i \in 1..Len(user_account.loans) :
        LET loan == user_account.loans[i]
        IN  \A usdc_amount \in RepayAmounts(loan.id) :
              (/\ RepayLoan(user_account.owner, loan.id, usdc_amount)
               /\ unix_timestamp < loan.start_date) =>
                  /\ result'.err = "ArithmeticOverflow"
                  /\ UNCHANGED lg_vars]_vars

(***************************************************************************)
(* The ledger on the interest scenario of the specification: a loan of     *)
(* 100,000,000 at 5 percent, one day old.                                  *)
(***************************************************************************)
\* The model originates at most this many loans.
MaxScenarioLoans == 1

ScenarioClocks == {LedgerStart + 86400}
ScenarioSolAmounts == {5000}
ScenarioUsdcAmounts == {100000000, 1000}
ScenarioLtvs == {33, 50}
ScenarioAnswers == {1000000000, 10000}

\* The amounts a repayment is tried with: a half of the principal of the
\* scenario, the principal, the total owed and one more than the total owed.
ScenarioRepayAmounts(loan_id) == (RepayAmounts(loan_id) \ {600}) \cup {50000000}

NextScenario ==
    \/ Initialize(LedgerOwner)
    \/ CreateUsdcMint(LedgerOwner)
    \/ \E sol_amount \in ScenarioSolAmounts, usdc_amount \in ScenarioUsdcAmounts,
          ltv \in ScenarioLtvs, answer \in ScenarioAnswers :
          /\ user_account.loan_count < MaxScenarioLoans
          /\ DepositSolAndTakeLoan(LedgerOwner, sol_amount, usdc_amount, ltv, answer)
    \/ \E loan_id \in LoanIds :
          \E usdc_amount \in ScenarioRepayAmounts(loan_id) :
             RepayLoan(LedgerOwner, loan_id, usdc_amount)
    \/ \E t \in ScenarioClocks : AdvanceClock(t)

SpecScenario == Init /\ [][NextScenario]_vars

\* The loan of the scenario: principal 100,000,000, apy 5, 86,400 seconds old.
IsScenarioLoan(loan, now) ==
    /\ loan.principal = 100000000
    /\ loan.apy = 5
    /\ now - loan.start_date = 86400

\* The interest and the total owed of the repayment that has just run, read
\* off its outcome: a repayment is refused with RepaymentAmountTooHigh
\* exactly when its amount exceeds the total owed.
RepaymentBoundary(total_owed) ==
    result'.op = "repay_loan" => \A i \in 1..Len(user_account.loans) :
        LET loan == user_account.loans[i]
        IN  IsScenarioLoan(loan, unix_timestamp) =>
              /\ lg_total_owed(loan, unix_timestamp) = Big(total_owed)
              /\ lg_interest(loan, unix_timestamp) = Big(total_owed - loan.principal)
              /\ \A usdc_amount \in ScenarioRepayAmounts(loan.id) \cup {total_owed, total_owed + 1} :
                    RepayLoan(user_account.owner, loan.id, usdc_amount) =>
                       (result'.err = "RepaymentAmountTooHigh" <=> usdc_amount > total_owed)

\* C21, as the specification states it: on the loan of the scenario the
\* repayment computes an interest of 1,369 and a total owed of 100,001,369.
C21_InterestScenario == [][RepaymentBoundary(100001369)]_vars

\* C21, amended: on the loan of the scenario the repayment computes an
\* interest of 13,698 and a total owed of 100,013,698.
C21_InterestScenarioExact == [][RepaymentBoundary(100013698)]_vars

\* One more than 100,013,698 was refused on the loan of the scenario.
C21_Witness ==
    /\ result = [op |-> "repay_loan", err |-> "RepaymentAmountTooHigh"]
    /\ Len(user_account.loans) = 1
    /\ IsScenarioLoan(user_account.loans[1], unix_timestamp)

(***************************************************************************)
(* The sizing of the collateral applied on its own.                        *)
(***************************************************************************)
SizerUsdcAmounts == {1, 2, 3, 4, 1000, 1000000, 100000000}
SizerLtvs == {20, 25, 30, 33, 50}
SizerAnswers == {0, 1, 10000, 15000, 30000, 1000000000}

\* The price read from the feed, the match on ltv and the required
\* collateral, as deposit_sol_and_take_loan computes them: None for an ltv
\* outside the table and for a step that fails.
sized_collateral(usdc_amount, ltv, answer) ==
    LET sol_price == as_u64(answer)
        m == LtvMatch(ltv)
    IN  IF m = <<>> THEN None ELSE required_collateral(Big(usdc_amount), Big(m[1]), sol_price)

SizeCollateral(usdc_amount, ltv, answer) ==
    LET value == sized_collateral(usdc_amount, ltv, answer)
    IN  /\ sizer' = [usdc_amount |-> usdc_amount, ltv |-> ltv, price |-> answer, value |-> value]
        /\ result' = [op |-> "required_collateral",
                      err |-> IF value # None THEN "Ok"
                              ELSE IF LtvMatch(ltv) = <<>> THEN "InvalidLTV"
                              ELSE "ArithmeticOverflow"]
        /\ UNCHANGED <<unix_timestamp, accrual, vt_vars, sl_vars, lg_vars>>

NextSizer ==
    \E usdc_amount \in SizerUsdcAmounts, ltv \in SizerLtvs, answer \in SizerAnswers :
       SizeCollateral(usdc_amount, ltv, answer)

SpecSizer == Init /\ [][NextSizer]_vars

\* The sizing of the scenario: ltv 25, debt 1,000,000, price 15,000.
IsScenarioSizing == sizer.usdc_amount = 1000000 /\ sizer.ltv = 25 /\ sizer.price = 15000

\* C22, as the specification states it: the required collateral of the
\* scenario is 2,666.
C22_CollateralScenario == IsScenarioSizing => sizer.value = Big(2666)

\* C22, amended: the required collateral of the scenario is 2,666,666.
C22_CollateralScenarioExact == IsScenarioSizing => sizer.value = Big(2666666)

C22_Witness == IsScenarioSizing /\ sizer.value = Big(2666666) /\ result.err = "Ok"

\* The case of a sizing the claims speak of: an ltv of the table and a
\* positive price, with a value.
SizedOk == sizer.ltv \in TableLtv /\ sizer.price > 0 /\ sizer.value # None

\* C23, as the specification states it: the required collateral is the
\* value of the formula on its inputs, is strictly larger for a strictly
\* larger debt and is not larger for a larger price.
C23_SizingStrictlyMonotone ==
    SizedOk =>
        /\ sizer.value = RequiredCollateral(sizer.usdc_amount, sizer.ltv, sizer.price)
        /\ \A usdc_amount \in SizerUsdcAmounts :
              usdc_amount > sizer.usdc_amount =>
                 BigLt(sizer.value, sized_collateral(usdc_amount, sizer.ltv, sizer.price))
        /\ \A answer \in SizerAnswers :
              answer > sizer.price =>
                 BigLe(sized_collateral(sizer.usdc_amount, sizer.ltv, answer), sizer.value)

\* C23, amended: the required collateral is the value of the formula on its
\* inputs, is not smaller for a larger debt, is strictly larger for a
\* strictly larger debt when the price is at most 10,000, and is not larger
\* for a larger price.
C23_SizingMonotone ==
    SizedOk =>
        /\ sizer.value = RequiredCollateral(sizer.usdc_amount, sizer.ltv, sizer.price)
        /\ \A usdc_amount \in SizerUsdcAmounts :
              usdc_amount > sizer.usdc_amount =>
                 LET larger == sized_collateral(usdc_amount, sizer.ltv, sizer.price)
                 IN  /\ BigLe(sizer.value, larger)
                     /\ sizer.price <= 10000 => BigLt(sizer.value, larger)
        /\ \A answer \in SizerAnswers :
              answer > sizer.price =>
                 BigLe(sized_collateral(sizer.usdc_amount, sizer.ltv, answer), sizer.value)

\* A debt of 3 at ltv 50 and price 30,000 was sized at 2, as a debt of 4 is.
C23_Witness ==
    /\ sizer = [usdc_amount |-> 3, ltv |-> 50, price |-> 30000, value |-> Big(2)]
    /\ sized_collateral(4, 50, 30000) = Big(2)
    /\ result.err = "Ok"

(***************************************************************************)
(* The single-loan program: repayment, the liquidation of the unit test    *)
(* and origination.                                                        *)
(***************************************************************************)
\* C24: repay_loan by the recorded borrower, at a clock not before the
\* loan's start, with an amount above 0 and below total due that the borrower
\* holds, succeeds, leaves the loan account open with a principal strictly
\* between 0 and the principal before, and takes exactly the amount from the
\* borrower's token balance.
C24_PartialRepayment ==
    [][result'.op = "repay_loan" /\ loan_account.has_data =>
        \A amount \in SlRepayAmounts :
            (/\ SlRepayLoan(loan_account.borrower, amount)
             /\ unix_timestamp >= loan_account.start_date
             /\ BigLt(Big(0), amount)
             /\ BigLt(amount, TotalDue(loan_account, unix_timestamp))
             /\ BigLe(amount, sl_tokens[loan_account.borrower])) =>
                /\ result'.err = "Ok"
                /\ loan_account'.has_data
                /\ loan_account'.principal > 0
                /\ loan_account'.principal < loan_account.principal
                /\ sl_tokens'[loan_account.borrower]
                      = BigSub(sl_tokens[loan_account.borrower], amount)]_vars

\* Origination alone: initialize_loan at the clocks of the model.
NextOrigination ==
    \/ \E b \in Signers, amount \in SlAmounts, apy \in SlApys :
          sl_opened < MaxOpened /\ InitializeLoan(b, amount, apy)
    \/ \E t \in SlClocks : SlAdvanceClock(t)

SpecOrigination == InitLoan /\ [][NextOrigination]_vars

\* C27: a successful initialize_loan(amount, apy) writes the record
\* {borrower: the signer, principal: amount, apy, start_date: the clock,
\* collateral: amount * 100 / (SOL_PRICE * LTV)}, takes that collateral from
\* the borrower's lamports and adds amount to the borrower's tokens;
\* initialize_loan(0, apy) fails with InvalidLoanAmount and changes nothing.
C27_Origination ==
    [][result'.op = "initialize_loan" =>
        \A b \in Signers, amount \in SlAmounts, apy \in SlApys :
            InitializeLoan(b, amount, apy) =>
                LET collateral == ToInt(BigDiv(BigMul(Big(amount), Big(100)),
                                               Big(SOL_PRICE * LTV)))
                IN  /\ result'.err = "Ok" =>
                          /\ loan_account' = [has_data |-> TRUE, borrower |-> b,
                                              start_date |-> unix_timestamp,
                                              principal |-> amount, apy |-> apy,
                                              collateral |-> collateral]
                          /\ sl_lamports'[b] = sl_lamports[b] - collateral
                          /\ sl_tokens'[b] = BigAdd(sl_tokens[b], Big(amount))
                    /\ amount = 0 =>
                          /\ result'.err = "InvalidLoanAmount"
                          /\ UNCHANGED <<loan_account, sl_lamports, sl_tokens>>]_vars

\* initialize_loan(100,000,000, 500) has just succeeded: the collateral of
\* 2,666,666 lamports is in the loan account.
C27_Witness ==
    /\ result = [op |-> "initialize_loan", err |-> "Ok"]
    /\ loan_account.has_data
    /\ loan_account.principal = 100000000
    /\ loan_account.apy = 500
    /\ loan_account.collateral = 2666666
    /\ sl_lamports["loan_account"] = 2666666

(***************************************************************************)
(* The single-loan program: the repayment and the liquidation of the loan  *)
(* of test_repay_loan and test_liquidate_loan, with a borrower who holds   *)
(* little or much of the debt token.                                       *)
(***************************************************************************)
\* What the borrower holds of the debt token: the 1,100 USDC of the unit
\* test, or a million USDC.
RepayHoldings == {Big(1100000000), OneMillionUsdc}

InitRepay ==
    /\ LedgerIdle
    /\ ExtIdle
    /\ unix_timestamp = TestLoan.start_date
    /\ result = NoResult
    /\ overflow_checks \in BOOLEAN
    /\ rent_lamports_per_byte_year \in {0, 1}
    /\ loan_account = TestLoan
    /\ sl_opened = 0
    /\ sl_lamports = [a \in {Borrower, Liquidator, "loan_account"} |->
                        IF a = "loan_account" THEN 100000000
                        ELSE IF a = Borrower THEN 900000000
                        ELSE 1000000000]
    /\ \E held \in RepayHoldings :
          sl_tokens = [a \in {Borrower, Liquidator, "program"} |->
                        IF a = Borrower THEN held
                        ELSE IF a = Liquidator THEN Big(1000000000)
                        ELSE OneMillionUsdc]

\* The amounts a repayment is tried with: those of SlRepayAmounts and the
\* principal plus the interest accrued, whatever the program makes of it.
FullRepayAmounts ==
    SlRepayAmounts
        \cup (IF loan_account.has_data
              THEN {TotalDue(loan_account, unix_timestamp)} ELSE {})

NextRepay ==
    \/ \E b \in Signers : \E amount \in FullRepayAmounts : SlRepayLoan(b, amount)
    \/ \E l \in Signers : LiquidateLoan(l)
    \/ \E t \in SlClocks : SlAdvanceClock(t)

SpecRepay == InitRepay /\ [][NextRepay]_vars

\* The loan of the unit tests, 172,800 seconds after its start.
IsLiquidationScenario ==
    /\ loan_account = TestLoan
    /\ unix_timestamp = TestLoan.start_date + 172800

\* C26: in the scenario of the unit test liquidate_loan by a signer holding
\* total due succeeds, adds 100,000,000 lamports to the liquidator and leaves
\* the loan account with 0 lamports.  The program refuses instead: total due
\* is 102,739,726 and the collateral value at SOL_PRICE is 150,000,000, so
\* liquidate_loan returns LoanNotUnderwater.
C26_LiquidationScenario ==
    [][result'.op = "liquidate_loan" /\ IsLiquidationScenario =>
        \A l \in Signers :
            (/\ LiquidateLoan(l)
             /\ BigLe(TotalDue(loan_account, unix_timestamp), sl_tokens[l])) =>
                /\ result'.err = "Ok"
                /\ sl_lamports'[l] = sl_lamports[l] + 100000000
                /\ sl_lamports'["loan_account"] = 0]_vars

\* C25: repay_loan by the recorded borrower, at a clock not before the loan's
\* start, with an amount of at least principal plus accrued interest that the
\* borrower holds, succeeds, adds exactly the collateral to the borrower's
\* lamports, takes exactly the collateral from the loan account's lamports
\* and closes the loan account.
C25_FullRepayment ==
    [][result'.op = "repay_loan" /\ loan_account.has_data =>
        \A amount \in FullRepayAmounts :
            (/\ SlRepayLoan(loan_account.borrower, amount)
             /\ unix_timestamp >= loan_account.start_date
             /\ BigLe(TotalDue(loan_account, unix_timestamp), amount)
             /\ BigLe(amount, sl_tokens[loan_account.borrower])) =>
                /\ result'.err = "Ok"
                /\ sl_lamports'[loan_account.borrower]
                      = sl_lamports[loan_account.borrower] + loan_account.collateral
                /\ sl_lamports'["loan_account"]
                      = sl_lamports["loan_account"] - loan_account.collateral
                /\ ~loan_account'.has_data]_vars

(***************************************************************************)
(* The deposit and withdraw vaults: src/main_deposit.rs, src/               *)
(* main_deposit_withdraw.rs, deposit_program/src/lib.rs and the Anchor      *)
(* program programs/deposit-withdraw/src/lib.rs.  One of them is deployed;  *)
(* `vault_account` is the data of the one user account (or vault), and      *)
(* vt_lamports the lamports of the two wallets and of that account.         *)
(***************************************************************************)
Wallets == {"user", "other"}

VaultVariants == {"main_deposit", "main_deposit_withdraw", "deposit_program", "solana_vault"}

\* std::mem::size_of::<UserAccount>() of each program, and the `space = 8 + 40`
\* of the Anchor vault.
UserAccountSpace ==
    CASE vault_variant = "main_deposit" -> 8
      [] vault_variant = "solana_vault" -> 8 + 40
      [] OTHER -> 32 + 8

VaultOk(account, lamports) == [err |-> "Ok", account |-> account, lamports |-> lamports]

VaultFail(e) == [err |-> e, account |-> vault_account, lamports |-> vt_lamports]

\* system_instruction::transfer: the sender holds the amount, and lamports
\* are taken only from a wallet the system program owns; a transfer of 0
\* lamports debits nothing and passes for any wallet.  <<>> stands for the
\* failure of the invoke.
system_transfer(lamports, from, to, amount) ==
    IF (amount > 0 /\ wallet_owner[from] # "system") \/ lamports[from] < amount THEN <<>>
    ELSE <<[lamports EXCEPT ![from] = @ - amount, ![to] = @ + amount]>>

\* system_instruction::create_account of the user account, paid by `from`.
create_account(from, lamports_needed) ==
    IF vault_account.created \/ vt_lamports["user_account"] > 0 THEN <<>>
    ELSE system_transfer(vt_lamports, from, "user_account", lamports_needed)

\* The runtime lets a program take lamports only from an account it owns.
MaySpend(from, amount) == amount = 0 \/ wallet_owner[from] = "program"

\* balance.checked_add(amount) and balance.checked_sub(amount) on u64
balance_checked_add(balance, amount) == checked_add(Big(balance), Big(amount))

balance_checked_sub(balance, amount) == checked_sub(Big(balance), Big(amount))

\* ---- src/main_deposit.rs ----
md_deposit(user_wallet, amount) ==
    IF ~vault_account.created THEN VaultFail("IncorrectProgramId")
    ELSE IF amount = 0 THEN VaultFail("InvalidInstructionData")
    ELSE
    LET required_lamports == minimum_balance(UserAccountSpace)
        lamports_to_transfer == required_lamports - vt_lamports["user_account"]
        funded == IF vt_lamports["user_account"] < required_lamports
                  THEN system_transfer(vt_lamports, user_wallet, "user_account",
                                       lamports_to_transfer)
                  ELSE <<vt_lamports>>
        balance == balance_checked_add(vault_account.balance, amount)
    IN  IF funded = <<>> THEN VaultFail("SystemTransferFailed")
        ELSE IF balance = None THEN VaultFail("ArithmeticOverflow")
        ELSE LET moved == system_transfer(funded[1], user_wallet, "user_account", amount)
             IN  IF moved = <<>> THEN VaultFail("SystemTransferFailed")
                 ELSE VaultOk([vault_account EXCEPT !.balance = ToInt(balance)], moved[1])

\* A withdrawal that takes what the balance holds: no check of the amount
\* and a saturating subtraction.
md_withdraw_Saturating(user_wallet, amount) ==
    IF ~vault_account.created THEN VaultFail("IncorrectProgramId")
    ELSE IF amount = 0 THEN VaultFail("InvalidInstructionData")
    ELSE IF vt_lamports["user_account"] < amount THEN VaultFail("ArithmeticOverflow")
    ELSE VaultOk([vault_account EXCEPT
                     !.balance = IF @ < amount THEN 0 ELSE @ - amount],
                 [vt_lamports EXCEPT !["user_account"] = @ - amount,
                                     ![user_wallet] = @ + amount])

\* A withdrawal that subtracts the amount from the balance and moves one
\* lamport less.
md_withdraw_ShortPaid(user_wallet, amount) ==
    IF ~vault_account.created THEN VaultFail("IncorrectProgramId")
    ELSE IF amount = 0 THEN VaultFail("InvalidInstructionData")
    ELSE IF vault_account.balance < amount THEN VaultFail("InsufficientFunds")
    ELSE VaultOk([vault_account EXCEPT !.balance = @ - amount],
                 [vt_lamports EXCEPT !["user_account"] = @ - (amount - 1),
                                     ![user_wallet] = @ + (amount - 1)])

md_withdraw(user_wallet, amount) ==
    IF ~vault_account.created THEN VaultFail("IncorrectProgramId")
    ELSE IF amount = 0 THEN VaultFail("InvalidInstructionData")
    ELSE IF vault_account.balance < amount THEN VaultFail("InsufficientFunds")
    ELSE
    LET balance == balance_checked_sub(vault_account.balance, amount)
    IN  IF balance = None THEN VaultFail("ArithmeticOverflow")
        ELSE IF vt_lamports["user_account"] < amount THEN VaultFail("ArithmeticOverflow")
        ELSE VaultOk([vault_account EXCEPT !.balance = ToInt(balance)],
                     [vt_lamports EXCEPT !["user_account"] = @ - amount,
                                         ![user_wallet] = @ + amount])

\* ---- src/main_deposit_withdraw.rs ----
mdw_initialize_account(user) ==
    IF ~is_exempt(vt_lamports["user_account"],
                  IF vault_account.created THEN UserAccountSpace ELSE 0)
    THEN VaultFail("NotRentExempt")
    ELSE IF ~vault_account.created THEN VaultFail("IncorrectProgramId")
    ELSE VaultOk([vault_account EXCEPT !.owner = user, !.balance = 0], vt_lamports)

mdw_deposit(user, amount) ==
    IF amount = 0 THEN VaultFail("AmountMustBeGreaterThanZero")
    ELSE IF ~vault_account.created THEN VaultFail("BorshIoError")
    ELSE IF vault_account.owner # user THEN VaultFail("InvalidAccountData")
    ELSE
    LET balance == balance_checked_add(vault_account.balance, amount)
    IN  IF balance = None THEN VaultFail("Overflow")
        ELSE IF vt_lamports[user] < amount THEN VaultFail("InsufficientFunds")
        ELSE IF ~MaySpend(user, amount) THEN VaultFail("ExternalAccountLamportSpend")
        ELSE VaultOk([vault_account EXCEPT !.balance = ToInt(balance)],
                     [vt_lamports EXCEPT ![user] = @ - amount,
                                         !["user_account"] = @ + amount])

mdw_withdraw(user, amount) ==
    IF amount = 0 THEN VaultFail("AmountMustBeGreaterThanZero")
    ELSE IF ~vault_account.created THEN VaultFail("BorshIoError")
    ELSE IF vault_account.owner # user THEN VaultFail("InvalidAccountData")
    ELSE IF vault_account.balance < amount THEN VaultFail("InsufficientBalance")
    ELSE
    LET balance == balance_checked_sub(vault_account.balance, amount)
    IN  IF balance = None THEN VaultFail("Overflow")
        ELSE IF vt_lamports["user_account"] < amount THEN VaultFail("InsufficientFunds")
        ELSE VaultOk([vault_account EXCEPT !.balance = ToInt(balance)],
                     [vt_lamports EXCEPT !["user_account"] = @ - amount,
                                         ![user] = @ + amount])

\* ---- deposit_program/src/lib.rs ----
dp_initialize_account(user) ==
    LET lamports == minimum_balance(UserAccountSpace)
        created == create_account(user, lamports)
    IN  IF created = <<>> THEN VaultFail("CreateAccountFailed")
        ELSE VaultOk([created |-> TRUE, owner |-> user, balance |-> 0], created[1])

dp_deposit(user, amount) ==
    IF ~vault_account.created THEN VaultFail("IncorrectProgramId")
    ELSE IF vault_account.owner # user THEN VaultFail("Unauthorized")
    ELSE
    LET moved == system_transfer(vt_lamports, user, "user_account", amount)
        balance == balance_checked_add(vault_account.balance, amount)
    IN  IF moved = <<>> THEN VaultFail("SystemTransferFailed")
        ELSE IF balance = None THEN VaultFail("AmountOverflow")
        ELSE VaultOk([vault_account EXCEPT !.balance = ToInt(balance)], moved[1])

dp_withdraw(user, amount) ==
    IF ~vault_account.created THEN VaultFail("IncorrectProgramId")
    ELSE IF vault_account.owner # user THEN VaultFail("Unauthorized")
    ELSE IF vault_account.balance < amount THEN VaultFail("InsufficientFunds")
    ELSE IF vt_lamports["user_account"] < amount THEN VaultFail("AmountOverflow")
    ELSE
    LET balance == balance_checked_sub(vault_account.balance, amount)
    IN  IF balance = None THEN VaultFail("AmountOverflow")
        ELSE VaultOk([vault_account EXCEPT !.balance = ToInt(balance)],
                     [vt_lamports EXCEPT !["user_account"] = @ - amount,
                                         ![user] = @ + amount])

\* ---- programs/deposit-withdraw/src/lib.rs (solana_vault) ----
sv_initialize(authority) ==
    LET created == create_account(authority, minimum_balance(UserAccountSpace))
    IN  IF created = <<>> THEN VaultFail("CreateAccountFailed")
        ELSE VaultOk([created |-> TRUE, owner |-> authority, balance |-> 0], created[1])

\* The checks of `Transact`: the vault is an account of the program and its
\* authority is the signer.
TransactError(authority) ==
    IF ~vault_account.created THEN "AccountNotInitialized"
    ELSE IF vault_account.owner # authority THEN "ConstraintHasOne"
    ELSE "Ok"

sv_deposit(authority, depositor, amount) ==
    IF TransactError(authority) # "Ok" THEN VaultFail(TransactError(authority))
    ELSE IF vt_lamports[depositor] < amount THEN VaultFail("InsufficientFunds")
    ELSE IF ~MaySpend(depositor, amount) THEN VaultFail("ExternalAccountLamportSpend")
    ELSE VaultOk([vault_account EXCEPT !.balance = @ + amount],
                 [vt_lamports EXCEPT ![depositor] = @ - amount,
                                     !["user_account"] = @ + amount])

sv_withdraw(authority, receiver, amount) ==
    IF TransactError(authority) # "Ok" THEN VaultFail(TransactError(authority))
    ELSE IF vault_account.balance < amount THEN VaultFail("InsufficientFunds")
    ELSE IF vt_lamports["user_account"] < amount THEN VaultFail("Panic")
    ELSE VaultOk([vault_account EXCEPT !.balance = @ - amount],
                 [vt_lamports EXCEPT ![receiver] = @ + amount,
                                     !["user_account"] = @ - amount])

\* ---- the instructions of the deployed program ----
\* `user` signs; `party` is the depositor or the receiver of solana_vault and
\* the signing wallet itself in the other programs.
vault_initialize(user) ==
    CASE vault_variant = "main_deposit_withdraw" -> mdw_initialize_account(user)
      [] vault_variant = "deposit_program" -> dp_initialize_account(user)
      [] vault_variant = "solana_vault" -> sv_initialize(user)
      [] OTHER -> VaultFail("InvalidInstructionData")

vault_deposit(user, party, amount) ==
    CASE vault_variant = "main_deposit" -> md_deposit(user, amount)
      [] vault_variant = "main_deposit_withdraw" -> mdw_deposit(user, amount)
      [] vault_variant = "deposit_program" -> dp_deposit(user, amount)
      [] OTHER -> sv_deposit(user, party, amount)

vault_withdraw(user, party, amount) ==
    CASE vault_variant = "main_deposit" -> md_withdraw(user, amount)
      [] vault_variant = "main_deposit_withdraw" -> mdw_withdraw(user, amount)
      [] vault_variant = "deposit_program" -> dp_withdraw(user, amount)
      [] OTHER -> sv_withdraw(user, party, amount)

VaultStep(op, r, history) ==
    /\ result' = [op |-> op, err |-> r.err]
    /\ vault_account' = r.account
    /\ vt_lamports' = r.lamports
    /\ vt_history' = IF r.err = "Ok" THEN history ELSE vt_history
    /\ UNCHANGED <<unix_timestamp, sizer, accrual, vault_variant, wallet_owner, sl_vars, lg_vars>>

VaultInitialize(user) ==
    /\ vault_variant # "main_deposit"
    /\ VaultStep("initialize_account", vault_initialize(user), NoVaultHistory)

VaultDeposit(user, party, amount) ==
    /\ vault_variant = "solana_vault" \/ party = user
    /\ VaultStep("deposit", vault_deposit(user, party, amount),
                 [vt_history EXCEPT !.deposited = @ + amount])

VaultWithdraw(user, party, amount) ==
    /\ vault_variant = "solana_vault" \/ party = user
    /\ VaultStep("withdraw", vault_withdraw(user, party, amount),
                 [vt_history EXCEPT !.withdrawn = @ + amount])

\* The lamports each wallet starts with, the amounts of the instructions and
\* the most that the model deposits between two initializations.
WalletLamports == 3000
MaxDeposited == 1200
VaultAmounts == {0, 200, 1000}

\* The user account of main_deposit and of main_deposit_withdraw is created
\* by the client, rent exempt and zeroed, before the first instruction;
\* deposit_program and solana_vault create it in their initialization.  Each
\* wallet is owned by the system program or has been assigned to the vault
\* program.
InitVault ==
    /\ SingleLoanIdle
    /\ LedgerIdle
    /\ unix_timestamp = LedgerStart
    /\ result = NoResult
    /\ sizer = NoSizing
    /\ accrual = NoAccrual
    /\ vault_variant \in VaultVariants
    /\ wallet_owner \in [Wallets -> {"system", "program"}]
    /\ vault_account = [NoVaultAccount EXCEPT
                           !.created = vault_variant \in {"main_deposit",
                                                          "main_deposit_withdraw"}]
    /\ vt_lamports = [a \in Wallets \cup {"user_account"} |->
                        IF a \in Wallets THEN WalletLamports
                        ELSE IF vault_account.created THEN minimum_balance(UserAccountSpace)
                        ELSE 0]
    /\ vt_history = NoVaultHistory

NextVault ==
    \/ \E user \in Wallets : VaultInitialize(user)
    \/ \E user \in Wallets, party \in Wallets, amount \in VaultAmounts :
          /\ vt_history.deposited + amount <= MaxDeposited
          /\ VaultDeposit(user, party, amount)
    \/ \E user \in Wallets, party \in Wallets, amount \in VaultAmounts :
          VaultWithdraw(user, party, amount)

SpecVault == InitVault /\ [][NextVault]_vars

\* C28: in each vault program a withdrawal of more than the recorded balance
\* fails and leaves the recorded balance and the lamports of the wallets and
\* of the account as they are; the recorded balance is never below 0.
C28_OverWithdrawal ==
    /\ [](vault_account.balance >= 0)
    /\ [][result'.op = "withdraw" =>
            \A user \in Wallets, party \in Wallets, amount \in VaultAmounts :
                (/\ VaultWithdraw(user, party, amount)
                 /\ amount > vault_account.balance) =>
                    /\ result'.err # "Ok"
                    /\ UNCHANGED <<vault_account, vt_lamports>>]_vars

\* main_deposit_withdraw has just refused a withdrawal of 1,000 from a
\* balance of 200.
C28_Witness ==
    /\ vault_variant = "main_deposit_withdraw"
    /\ result = [op |-> "withdraw", err |-> "InsufficientBalance"]
    /\ vault_account.balance = 200
    /\ vt_history = [deposited |-> 200, withdrawn |-> 0]

\* C29: in each vault program a deposit of 0 fails and leaves the recorded
\* balance and the lamports of the wallets and of the account as they are.
C29_ZeroDeposit ==
    [][result'.op = "deposit" =>
        \A user \in Wallets, party \in Wallets :
            VaultDeposit(user, party, 0) =>
                /\ result'.err # "Ok"
                /\ UNCHANGED <<vault_account, vt_lamports>>]_vars

\* C30: the recorded balance is the sum of the amounts deposited less the sum
\* of the amounts withdrawn; a successful deposit of an amount moves exactly
\* that amount of lamports from the wallet to the account, a successful
\* withdrawal moves exactly that amount from the account to the wallet, and
\* neither touches the other wallet.
C30_Bookkeeping ==
    /\ [](vault_account.balance = vt_history.deposited - vt_history.withdrawn)
    /\ [][result' \in {[op |-> "deposit", err |-> "Ok"], [op |-> "withdraw", err |-> "Ok"]} =>
            \A user \in Wallets, party \in Wallets, amount \in VaultAmounts :
                /\ VaultDeposit(user, party, amount) =>
                      vt_lamports' = [vt_lamports EXCEPT ![party] = @ - amount,
                                                         !["user_account"] = @ + amount]
                /\ VaultWithdraw(user, party, amount) =>
                      vt_lamports' = [vt_lamports EXCEPT ![party] = @ + amount,
                                                         !["user_account"] = @ - amount]]_vars

\* main_deposit has taken deposits of 1,200 in all and has just paid 200 back.
C30_Witness ==
    /\ vault_variant = "main_deposit"
    /\ result = [op |-> "withdraw", err |-> "Ok"]
    /\ vt_history = [deposited |-> 1200, withdrawn |-> 200]
    /\ vault_account.balance = 1000
    /\ vt_lamports["user"] = WalletLamports - 1000

(***************************************************************************)
(* The ledger: the interest of repay_loan applied on its own to bounded    *)
(* principals, rates and durations.                                        *)
(***************************************************************************)

\* The interest of a loan of the principal and the rate that started at 0, at
\* the clock value `elapsed`.
AccrueInterest(principal, apy, elapsed) ==
    LET loan == [principal |-> principal, apy |-> apy, start_date |-> 0]
        value == lg_interest(loan, elapsed)
    IN  /\ accrual' = [principal |-> principal, apy |-> apy, elapsed |-> elapsed,
                       value |-> value]
        /\ result' = [op |-> "interest",
                      err |-> IF value = None THEN "ArithmeticOverflow" ELSE "Ok"]
        /\ UNCHANGED <<unix_timestamp, sizer, vt_vars, sl_vars, lg_vars>>

NextAccrual ==
    \E principal \in {0, 1, 1000, 100000000, 2000000000},
       apy \in {0, 1, 5, 8, 255},
       elapsed \in {0, 1, 86400, 31536000, 2000000000} :
        AccrueInterest(principal, apy, elapsed)

SpecAccrual == Init /\ [][NextAccrual]_vars

\* principal * apy * elapsed over the naturals
AccrualProduct == BigMul(BigMul(Big(accrual.principal), Big(accrual.apy)), Big(accrual.elapsed))

\* C31: whenever elapsed * apy * principal fits u64, the interest of
\* repay_loan is floor(principal * apy * elapsed / (SECONDS_IN_A_YEAR * 100)),
\* and it is 0 whenever apy is 0.
C31_InterestFormula ==
    accrual # NoAccrual =>
        /\ IsU64(AccrualProduct) =>
              accrual.value = BigDiv(AccrualProduct, BigMul(Big(SECONDS_IN_A_YEAR), Big(100)))
        /\ accrual.apy = 0 => accrual.value = Big(0)

\* The interest of 100,000,000 at 5 percent over a day has been computed:
\* 43,200,000,000,000 / 31,536,000 = 1,369,863 and 1,369,863 / 100 = 13,698.
C31_Witness ==
    /\ accrual = [principal |-> 100000000, apy |-> 5, elapsed |-> 86400, value |-> Big(13698)]
    /\ result = [op |-> "interest", err |-> "Ok"]

(***************************************************************************)
(* The single-loan program: repayments above total due, and closed loans.  *)
(***************************************************************************)
\* C32: repay_loan by the recorded borrower, at a clock not before the loan's
\* start, with an amount strictly above principal plus accrued interest is
\* rejected: it moves no tokens and leaves the loan and the lamports as they
\* are.
C32_OverRepaymentRejected ==
    [][result'.op = "repay_loan" /\ loan_account.has_data =>
        \A amount \in FullRepayAmounts :
            (/\ unix_timestamp >= loan_account.start_date
             /\ BigLt(TotalDue(loan_account, unix_timestamp), amount)
             /\ SlRepayLoan(loan_account.borrower, amount)) =>
                /\ result'.err # "Ok"
                /\ UNCHANGED <<loan_account, sl_lamports, sl_tokens>>]_vars

\* The loan of the unit tests repaid or liquidated, and loans opened again on
\* the same account by the borrower whose key the account is derived from.
NextClosed ==
    \/ \E b \in Signers : \E amount \in FullRepayAmounts : SlRepayLoan(b, amount)
    \/ \E l \in Signers : LiquidateLoan(l)
    \/ \E t \in {1625184000, 1625270400} : SlAdvanceClock(t)
    \/ \E amount \in SlAmounts, apy \in SlApys :
          sl_opened < MaxOpened /\ InitializeLoan(Borrower, amount, apy)

SpecClosed == InitRepay /\ [][NextClosed]_vars

\* C33: on a loan account whose loan has been repaid or liquidated (and not
\* opened again by initialize_loan) every repay_loan and liquidate_loan fails
\* and changes nothing; the lamports of the loan account fall only in the
\* step that closes an open loan, and then by its collateral, so a collateral
\* is paid out at most once.
C33_ClosedStaysClosed ==
    [][/\ ~loan_account.has_data =>
            /\ \A b \in Signers : \A amount \in FullRepayAmounts :
                  SlRepayLoan(b, amount) =>
                      /\ result'.err # "Ok"
                      /\ UNCHANGED <<loan_account, sl_lamports, sl_tokens>>
            /\ \A l \in Signers :
                  LiquidateLoan(l) =>
                      /\ result'.err # "Ok"
                      /\ UNCHANGED <<loan_account, sl_lamports, sl_tokens>>
       /\ sl_lamports'["loan_account"] < sl_lamports["loan_account"] =>
            /\ loan_account.has_data
            /\ ~loan_account'.has_data
            /\ result'.op \in {"repay_loan", "liquidate_loan"}
            /\ sl_lamports'["loan_account"]
                  = sl_lamports["loan_account"] - loan_account.collateral]_vars

\* The loan of the unit test was repaid and its collateral returned, and a
\* second repay_loan on the account has just failed.
C33_Witness ==
    /\ ~loan_account.has_data
    /\ sl_opened = 0
    /\ result = [op |-> "repay_loan", err |-> "BorshIoError"]
    /\ sl_lamports = [a \in {Borrower, Liquidator, "loan_account"} |->
                        IF a = "loan_account" THEN 0 ELSE 1000000000]

(***************************************************************************)
(* The ledger with two user accounts, each of an owner of its own, with    *)
(* loans of different terms in them; every instruction is tried on either  *)
(* account by either signer while the clock moves.                         *)
(***************************************************************************)
\* The model originates at most this many loans, in both accounts together.
MaxIsolatedLoans == 3

UserAccounts == {"user_account", "peer_account"}

\* Both signers hold lamports; neither user account exists yet.
InitIsolation ==
    /\ SingleLoanIdle
    /\ ExtIdle
    /\ unix_timestamp = LedgerStart
    /\ result = NoResult
    /\ user_account = NoUserAccount
    /\ peer = NoPeer
    /\ lg_lamports = [a \in {"owner", "other", "user_account"} |->
                          IF a = "user_account" THEN 0 ELSE OwnerLamports]
    /\ lg_tokens = [a \in {"user", "contract"} |->
                        IF a = "user" THEN Big(UserUsdc) ELSE None]

\* The ids a repayment given the account is tried with.
IsolationLoanIds(acct) == 1..(Given(acct).ua.loan_count + 1)

\* The amounts a repayment of a loan is tried with: the total owed and, in
\* the first account, a part.
IsolationRepayAmounts(acct, loan_id) ==
    LET loans == Given(acct).ua.loans
        i == LoanIndex(loans, loan_id)
        owed == IF i = 0 THEN None ELSE lg_total_owed(loans[i], unix_timestamp)
    IN  (IF acct = "user_account" THEN {600} ELSE {})
            \cup (IF owed = None \/ ~FitsInt(owed) THEN {} ELSE {ToInt(owed)})

\* The ratios an origination given the account is tried with.
IsolationLtvs(acct) == IF acct = "user_account" THEN {25, 50} ELSE {50}

NextIsolation ==
    \/ InitializeOn("user_account", "owner")
    \/ InitializeOn("peer_account", "other")
    \/ CreateUsdcMint(LedgerOwner)
    \/ \E acct \in UserAccounts, s \in LedgerSigners :
          \E ltv \in IsolationLtvs(acct) :
             /\ user_account.loan_count + peer.ua.loan_count < MaxIsolatedLoans
             /\ DepositSolAndTakeLoanOn(acct, s, 5000, 1000, ltv, 10000)
    \/ \E acct \in UserAccounts, s \in LedgerSigners :
          \E loan_id \in IsolationLoanIds(acct) :
             \E usdc_amount \in IsolationRepayAmounts(acct, loan_id) :
                RepayLoanOn(acct, s, loan_id, usdc_amount)
    \/ \E t \in LedgerClocks : AdvanceClock(t)

SpecIsolation == InitIsolation /\ [][NextIsolation]_vars

\* The loans of a list other than the loan of an id, in their order.
OtherLoans(loans, loan_id) == SelectSeq(loans, LAMBDA loan : loan.id # loan_id)

\* What the ledger stores of the position of a user account: the data of the
\* account, its lamports and the tokens of the USDC account passed with it.
Position(acct) ==
    [ua |-> Given(acct).ua, lamports |-> Given(acct).lamports["user_account"],
     tokens |-> Given(acct).tokens["user"]]

\* The user account an instruction given acct is not given.
OtherAccount(acct) == IF acct = "user_account" THEN "peer_account" ELSE "user_account"

\* A step is an instruction of the ledger given the user account acct and
\* signed by s.
IsolationStep(acct, s) ==
    \/ InitializeOn(acct, s)
    \/ \E ltv \in IsolationLtvs(acct) :
          DepositSolAndTakeLoanOn(acct, s, 5000, 1000, ltv, 10000)
    \/ \E loan_id \in IsolationLoanIds(acct) :
          \E usdc_amount \in IsolationRepayAmounts(acct, loan_id) :
             RepayLoanOn(acct, s, loan_id, usdc_amount)

C35_FreshLoanHealthy ==
    [][(/\ result = [op |-> "initialize_loan", err |-> "Ok"]
        /\ loan_account.has_data
        /\ unix_timestamp = loan_account.start_date) =>
            \A l \in Signers :
               LiquidateLoan(l) =>
                  /\ result'.err = "LoanNotUnderwater"
                  /\ UNCHANGED <<loan_account, sl_lamports, sl_tokens>>]_vars

(***************************************************************************)
(* The ledger: the collateral behind the debt.                             *)
(***************************************************************************)
\* C36: every loan of the list with a principal above 0 has a collateral
\* above 0.
C36_NoUncollateralizedDebt ==
    \A i \in 1..Len(user_account.loans) :
        user_account.loans[i].principal > 0 => user_account.loans[i].collateral > 0

\* The lamports a position holds: the free balance and the collateral of
\* the open loans.
HeldLamports(ua) == ua.sol_balance + SumCollateral(ua.loans)

\* C37: sol_balance plus the collateral of the open loans starts at 0, grows
\* by sol_amount in a successful deposit_sol_and_take_loan, falls by amount
\* in a successful withdraw_sol and is left alone by every other step, a
\* failed instruction included; so it is the sum of the deposits less the
\* sum of the withdrawals, which is what the transfers have left in the
\* lamports of the account.
C37_CollateralConservation ==
    /\ HeldLamports(user_account) = 0
    /\ [](HeldLamports(user_account) = lg_lamports["user_account"])
    /\ [][/\ \A s \in LedgerSigners, sol_amount \in AuthSolAmounts,
                usdc_amount \in AuthUsdcAmounts, ltv \in AuthLtvs, answer \in AuthAnswers :
                DepositSolAndTakeLoan(s, sol_amount, usdc_amount, ltv, answer) =>
                   HeldLamports(user_account')
                      = HeldLamports(user_account)
                          + (IF result'.err = "Ok" THEN sol_amount ELSE 0)
          /\ \A s \in LedgerSigners, amount \in AuthWithdrawAmounts :
                WithdrawSol(s, amount) =>
                   HeldLamports(user_account')
                      = HeldLamports(user_account)
                          - (IF result'.err = "Ok" THEN amount ELSE 0)
          /\ result'.op \in {"initialize", "repay_loan"} =>
                HeldLamports(user_account') = HeldLamports(user_account)]_vars

\* 5000 lamports were deposited with a loan of 1000, 3000 were withdrawn and
\* the loan was repaid in full: the collateral of 2000 is back in sol_balance.
C37_Witness ==
    /\ result = [op |-> "repay_loan", err |-> "Ok"]
    /\ user_account.loans = <<>>
    /\ user_account.sol_balance = 2000
    /\ lg_lamports["user_account"] = 5000 - 3000

(***************************************************************************)
(* The ledger: the debt the position records.                              *)
(***************************************************************************)
RECURSIVE SumPrincipal(_)
SumPrincipal(loans) ==
    IF loans = <<>> THEN 0 ELSE Head(loans).principal + SumPrincipal(Tail(loans))

\* C38: usdc_balance is at least the sum of the principal of the open loans,
\* and repay_loan of an open loan by the owner with an amount of at most its
\* principal never fails on the subtraction from usdc_balance.
C38_DebtBookkeeping ==
    /\ [](user_account.usdc_balance >= SumPrincipal(user_account.loans))
    /\ [][result'.op = "repay_loan" =>
            \A i \in 1..Len(user_account.loans) :
               \A usdc_amount \in RepayAmounts(user_account.loans[i].id) :
                  (/\ usdc_amount <= user_account.loans[i].principal
                   /\ unix_timestamp >= user_account.loans[i].start_date
                   /\ RepayLoan(user_account.owner, user_account.loans[i].id, usdc_amount)) =>
                      result'.err # "ArithmeticOverflow"]_vars

(***************************************************************************)
(* The vault programs: who may withdraw, and a second initialization.      *)
(***************************************************************************)
\* The wallet an account belongs to: the owner the account records, and in
\* main_deposit, whose account records no owner, a wallet that has put
\* lamports into the account and not taken them back.
OwnsVault(wallet) ==
    IF vault_variant = "main_deposit"
    THEN vt_lamports[wallet] < WalletLamports
    ELSE vault_account.owner = wallet

\* C39: in each vault program a withdrawal succeeds only when the wallet that
\* signs it owns the account, and an initialization of an account that has
\* an owner fails and leaves the owner and the balance as they are.
C39_VaultOwnership ==
    [][/\ result'.op = "withdraw" /\ result'.err = "Ok" =>
            \A user \in Wallets, party \in Wallets, amount \in VaultAmounts :
               VaultWithdraw(user, party, amount) => OwnsVault(user)
       /\ vault_account.created /\ vault_account.owner # "" =>
            \A user \in Wallets :
               VaultInitialize(user) =>
                  /\ result'.err # "Ok"
                  /\ UNCHANGED vault_account]_vars
====
